---- MODULE Spec2Model ----
(***************************************************************************)
(* A model of the TrackBackend aggregation core: the GTFS-RT decoder       *)
(* (data_cleaner.py), the bus client with its bounded retry                *)
(* (bus_client.py), the routers that map errors to HTTP statuses           *)
(* (routers/bus.py, subway.py, status.py) and the nearby aggregation and   *)
(* grouping engine (routers/nearby.py).                                    *)
(*                                                                         *)
(* Strings the code inspects (stop ids, route ids, directions, names) are  *)
(* sequences of code points, so that suffix tests, prefix stripping and    *)
(* lexicographic order are computed as Python computes them.  Strings that *)
(* are only compared for equality (mode, exception class, pc) are TLA+     *)
(* strings.  An optional value is <<>> (None) or <<v>>.                    *)
(***************************************************************************)
EXTENDS Integers, Sequences, FiniteSets, TLC

(***************************************************************************)
(* Strings                                                                 *)
(***************************************************************************)
None == <<>>

Some(v) == <<v>>

\* "N", "S" : the subway directions (code points 78 and 83)
strN == <<78>>

strS == <<83>>

\* "Unknown"
strUnknown == <<85, 110, 107, 110, 111, 119, 110>>

\* "En Route"
strEnRoute == <<69, 110, 32, 82, 111, 117, 116, 101>>

\* "On Time"
strOnTime == <<79, 110, 32, 84, 105, 109, 101>>

\* Python's str < str : lexicographic on code points, a proper prefix first.
RECURSIVE StrLess(_, _)
StrLess(a, b) ==
    IF b = <<>> THEN FALSE
    ELSE IF a = <<>> THEN TRUE
    ELSE IF Head(a) # Head(b) THEN Head(a) < Head(b)
    ELSE StrLess(Tail(a), Tail(b))

\* str.endswith(c) for a one-character c
EndsWith(s, c) == Len(s) > 0 /\ s[Len(s)] = c

\* s[:-1]
DropLast(s) == SubSeq(s, 1, Len(s) - 1)

\* s[:n]
Take(s, n) == SubSeq(s, 1, IF Len(s) < n THEN Len(s) ELSE n)

Max(a, b) == IF a > b THEN a ELSE b

Min(a, b) == IF a < b THEN a ELSE b

(***************************************************************************)
(* Bounds of the model                                                     *)
(***************************************************************************)
\* int(time.time()): the epoch second at which a request is served
Now == 1000

\* most entities of a FeedMessage of a direct /subway/{line} query
MaxEntities == 2

\* most stop-time updates, over all trip updates of such a FeedMessage
MaxStus == 2

\* largest minutes-away among the arrivals the sampled upstreams of a
\* nearby request offer, but for one far bus per stop (99 minutes and more)
MaxMin == 3

\* trip updates in a sampled subway feed, and stop-time updates in each
FeedTrips == 2

FeedStus == 3

\* most stops in a stops-for-location reply
MaxStops == 4

\* most monitored stop visits in a stop-monitoring reply
MaxVisits == 8

(***************************************************************************)
(* Stop Reference Index (station_lookup.py)                                *)
(***************************************************************************)
\* A stops.txt table: "A1", "A1N", "A1S" are rows ("Ash"), of "B2" only the
\* parent row exists ("Bay"), "C3" is another station named "Ash", "Z9" has no
\* row at all.
load_stops ==
    [id \in {<<65, 49>>, <<65, 49, 78>>, <<65, 49, 83>>, <<66, 50>>, <<67, 51>>} |->
        IF id[1] \in {65, 67} THEN [stop_id |-> id, name |-> <<65, 115, 104>>]
                      ELSE [stop_id |-> id, name |-> <<66, 97, 121>>]]

\* _load_stops().get(stop_id)
get_stop_info(stop_id) ==
    IF stop_id \in DOMAIN load_stops THEN Some(load_stops[stop_id]) ELSE None

\* info.name if info else stop_id
get_stop_name(stop_id) ==
    LET info == get_stop_info(stop_id)
    IN  IF info # None THEN info[1].name ELSE stop_id

(***************************************************************************)
(* Real-time feed decoder (data_cleaner.py)                                *)
(***************************************************************************)
\* a variant of _minutes_until without the clamp at zero
minutes_until_unclamped(epoch) == (epoch - Now) \div 60

\* max(0, (epoch - now) // 60); Python's // and TLA+'s \div both floor
minutes_until(epoch) == Max(0, (epoch - Now) \div 60)

\* list.sort(key=lambda a: a.minutes_away): a stable sort.
RECURSIVE InsertByMinutes(_, _)
InsertByMinutes(x, s) ==
    IF s = <<>> THEN <<x>>
    ELSE IF x.minutes_away < Head(s).minutes_away THEN <<x>> \o s
    ELSE <<Head(s)>> \o InsertByMinutes(x, Tail(s))

RECURSIVE SortByMinutes(_)
SortByMinutes(s) ==
    IF s = <<>> THEN <<>>
    ELSE InsertByMinutes(s[Len(s)], SortByMinutes(DropLast(s)))

\* data_cleaner.py 53-62: the destination of a trip update
TripDestination(trip) ==
    IF trip.stop_time_update = <<>> THEN None
    ELSE LET last_stop_id == trip.stop_time_update[Len(trip.stop_time_update)].stop_id
             first == get_stop_name(last_stop_id)
             second ==
                 IF /\ first = strUnknown
                    /\ Len(last_stop_id) > 1
                    /\ last_stop_id[Len(last_stop_id)] \in {78, 83}
                 THEN get_stop_name(DropLast(last_stop_id))
                 ELSE first
         IN  IF second = strUnknown THEN None ELSE Some(second)

\* models.py 15-22: the fields of TrackArrival.  The class declares no
\* destination field and a pydantic model ignores a keyword it does not
\* declare, so the destination passed at data_cleaner.py 75 is not kept.
TrackArrival(route_id, station, direction, destination, minutes_away, status) ==
    [route_id     |-> route_id,
     station      |-> station,
     direction    |-> direction,
     minutes_away |-> minutes_away,
     status       |-> status]

\* data_cleaner.py 64-79: the arrivals of one trip update, in feed order
RECURSIVE StuArrivals(_, _, _)
StuArrivals(stus, route, destination) ==
    IF stus = <<>> THEN <<>>
    ELSE LET stu == Head(stus)
             arrival_time == IF stu.has_arrival THEN stu.time ELSE 0
             rest == StuArrivals(Tail(stus), route, destination)
         IN  IF arrival_time = 0 THEN rest
             ELSE <<TrackArrival(route, stu.stop_id,
                                 IF EndsWith(stu.stop_id, 78) THEN strN ELSE strS,
                                 destination, minutes_until(arrival_time), strOnTime)>>
                  \o rest

\* data_cleaner.py 46-79: the loop over feed.entity
RECURSIVE EntityArrivals(_)
EntityArrivals(entities) ==
    IF entities = <<>> THEN <<>>
    ELSE LET entity == Head(entities)
         IN  (IF ~entity.has_trip_update THEN <<>>
              ELSE StuArrivals(entity.stop_time_update, entity.route_id,
                               TripDestination(entity)))
             \o EntityArrivals(Tail(entities))

\* a variant of get_arrivals_for_line that leaves the arrivals in feed order
ArrivalsInFeedOrder(feed) == EntityArrivals(feed)

\* get_arrivals_for_line, once the feed has been fetched and parsed
get_arrivals_for_line(feed) == SortByMinutes(EntityArrivals(feed))

(***************************************************************************)
(* Configuration (settings.json, config.py)                                *)
(***************************************************************************)
\* settings.app_settings.http_max_retries
http_max_retries == 2

\* settings.app_settings.search_radius_meters, as settings.json sets it
search_radius_meters == 800

\* the radius parameter of /nearby and /nearby/grouped when the client sends
\* none (nearby.py 48, 66)
nearby_radius_default == 500

\* the radius parameters a client sends: the default of /nearby, the default
\* of /bus/nearby, and a wider one
RadiusValues == {500, 800, 2000}

\* urls.bus_endpoints is configured (bus_client.py returns [] without a
\* request when it is None)
bus_endpoints == TRUE

\* nearby.py 192: one representative line per feed: A G N 1 B J L
feed_lines == <<<<65>>, <<71>>, <<78>>, <<49>>, <<66>>, <<74>>, <<76>>>>

(***************************************************************************)
(* Upstream replies and what httpx makes of them                           *)
(***************************************************************************)
Return(v) == [raised |-> FALSE, value |-> v]

Raise(e) == [raised |-> TRUE, exc |-> e]

\* An exception object: its class, the HTTP status it carries (0: none) and
\* the attempt of get_nearby_stops that raised it (0 elsewhere).
Exc(class, code, n) == [class |-> class, code |-> code, attempt |-> n]

Reply(code, body) == [kind |-> "http", code |-> code, wellformed |-> TRUE, body |-> body]

Malformed == [kind |-> "http", code |-> 200, wellformed |-> FALSE, body |-> <<>>]

Timeout == [kind |-> "timeout", code |-> 0, wellformed |-> FALSE, body |-> <<>>]

ConnectFailure == [kind |-> "connect", code |-> 0, wellformed |-> FALSE, body |-> <<>>]

\* the replies that are no well-formed 200: 401, 403, 504, a body that does
\* not parse, a timeout, a refused connection
FailureReplies ==
    {Reply(401, <<>>), Reply(403, <<>>), Reply(504, <<>>), Malformed, Timeout, ConnectFailure}

\* client.get(); response.raise_for_status(); response.json()
\* (bus_client._fetch_bus_json, mta_client.fetch_json); n tags the exception
fetch_bus_json(reply, n) ==
    IF reply.kind = "timeout" THEN Raise(Exc("TimeoutException", 0, n))
    ELSE IF reply.kind = "connect" THEN Raise(Exc("ConnectError", 0, n))
    ELSE IF reply.code >= 400 THEN Raise(Exc("HTTPStatusError", reply.code, n))
    ELSE IF ~reply.wellformed THEN Raise(Exc("JSONDecodeError", 0, n))
    ELSE Return(reply.body)

\* mta_client.fetch_protobuf followed by FeedMessage.ParseFromString
fetch_protobuf(reply) ==
    IF reply.kind = "timeout" THEN Raise(Exc("TimeoutException", 0, 0))
    ELSE IF reply.kind = "connect" THEN Raise(Exc("ConnectError", 0, 0))
    ELSE IF reply.code >= 400 THEN Raise(Exc("HTTPStatusError", reply.code, 0))
    ELSE IF ~reply.wellformed THEN Raise(Exc("DecodeError", 0, 0))
    ELSE Return(reply.body)

(***************************************************************************)
(* Bus client parsing (bus_client.py)                                      *)
(***************************************************************************)
\* bus_client.py 166-183: data.stops -> BusStop
RECURSIVE ParseStops(_)
ParseStops(stops_data) ==
    IF stops_data = <<>> THEN <<>>
    ELSE LET s == Head(stops_data)
         IN  <<[id |-> s.id, name |-> s.name, lat |-> s.lat, lon |-> s.lon]>>
             \o ParseStops(Tail(stops_data))

\* a variant of ParseExpected in which any timestamp text counts as a time
ParseExpectedAsPresent(raw) == IF raw.kind = "absent" THEN None ELSE Some(raw.epoch)

\* bus_client.py 248-254: datetime.fromisoformat of ExpectedArrivalTime
ParseExpected(raw) == IF raw.kind = "iso" THEN Some(raw.epoch) ELSE None

\* bus_client.py 238-294: MonitoredStopVisit -> BusArrival
RECURSIVE ParseVisits(_, _)
ParseVisits(visits, stop_id) ==
    IF visits = <<>> THEN <<>>
    ELSE LET visit == Head(visits)
             status_text == visit.PresentableDistance
             expected_arrival == ParseExpected(visit.ExpectedArrivalTime)
             raw_route ==
                 IF visit.LineRef # <<>> THEN visit.LineRef
                 ELSE IF visit.PublishedLineName # <<>> THEN visit.PublishedLineName[1]
                 ELSE <<>>
             rest == ParseVisits(Tail(visits), stop_id)
         IN  IF status_text = <<>> /\ expected_arrival = None THEN rest
             ELSE <<[route_id         |-> raw_route,
                     stop_id          |-> stop_id,
                     status_text      |-> IF status_text # <<>> THEN status_text
                                          ELSE strEnRoute,
                     expected_arrival |-> expected_arrival]>> \o rest

(***************************************************************************)
(* Sampled upstream payloads of a nearby request                           *)
(***************************************************************************)
\* stop i of a stops-for-location reply; later stops lie nearer to the user
SampleStop(i) ==
    [id |-> <<77, 48 + i>>, name |-> <<83, 48 + i>>, lat |-> MaxStops + 1 - i, lon |-> 0]

StopsBody(n) == [i \in 1..n |-> SampleStop(i)]

\* visit k of the stop-monitoring reply for stop j
SampleVisit(j, k) ==
    [LineRef |-> IF k % 2 = 1
                 THEN <<77, 84, 65, 32, 78, 89, 67, 84, 95, 66, 54, 51>>  \* MTA NYCT_B63
                 ELSE <<>>,
     PublishedLineName |-> IF k % 4 = 0 THEN <<>> ELSE << <<66, 52, 49>> >>,  \* B41
     PresentableDistance |->
         IF k % 3 = 0 THEN <<>>
         ELSE IF k % 3 = 1 THEN <<97, 116, 32, 115, 116, 111, 112>>        \* at stop
         ELSE <<110, 101, 97, 114>>,                                       \* near
     ExpectedArrivalTime |->
         IF k % 4 = 0 THEN [kind |-> "absent", epoch |-> 0]
         ELSE IF k % 4 = 3 THEN [kind |-> "garbage", epoch |-> 0]
         ELSE IF k % 8 = 5 THEN [kind |-> "iso", epoch |-> Now + 60 * (98 + j) + 10]
         ELSE [kind |-> "iso", epoch |-> Now + 60 * ((j + k) % (MaxMin + 1)) + 10]]

VisitsBody(j, v) == [k \in 1..v |-> SampleVisit(j, k)]

\* the sibling route sharing the feed of representative line i: C G Q 2 D Z L
SiblingRoute(i) == << <<67>>, <<71>>, <<81>>, <<50>>, <<68>>, <<90>>, <<76>> >>[i]

\* stop-time update j of trip k in the feed of representative line i
SampleStu(i, k, j) ==
    [stop_id     |-> <<feed_lines[i][1], 48 + j, IF k % 2 = 1 THEN 78 ELSE 83>>,
     has_arrival |-> (i + j + k) % 5 # 0,
     time        |-> Now + 60 * ((i * j + k) % (MaxMin + 2)) - 30]

SampleTrip(i, k) ==
    [has_trip_update  |-> TRUE,
     route_id         |-> IF k % 2 = 1 THEN feed_lines[i] ELSE SiblingRoute(i),
     stop_time_update |-> [j \in 1..FeedStus |-> SampleStu(i, k, j)]]

FeedBody(i) == [k \in 1..FeedTrips |-> SampleTrip(i, k)]

(***************************************************************************)
(* Aggregation and grouping (routers/nearby.py)                            *)
(***************************************************************************)
\* a variant of bus_minutes_away in which a missing timestamp counts as due
bus_minutes_away_or_zero(expected) ==
    IF expected = None THEN 0 ELSE Max(0, (expected[1] - Now) \div 60)

\* nearby.py 280-290
bus_minutes_away(expected) ==
    IF expected = None THEN 99 ELSE Max(0, (expected[1] - Now) \div 60)

\* a variant of SubwayEntries that skips only negative minutes
RECURSIVE SubwayEntriesKeepingZero(_, _)
SubwayEntriesKeepingZero(line, arrivals) ==
    IF arrivals = <<>> THEN <<>>
    ELSE LET arrival == Head(arrivals)
             rest == SubwayEntriesKeepingZero(line, Tail(arrivals))
         IN  IF arrival.minutes_away < 0 THEN rest
             ELSE <<[route_id     |-> line,
                     stop_name    |-> arrival.station,
                     direction    |-> arrival.direction,
                     minutes_away |-> arrival.minutes_away,
                     status       |-> arrival.status,
                     mode         |-> "subway",
                     stop_lat     |-> None,
                     stop_lon     |-> None]>> \o rest

\* a variant of SubwayEntries that labels an entry with the route of its
\* arrival
RECURSIVE SubwayEntriesOwnRoute(_, _)
SubwayEntriesOwnRoute(line, arrivals) ==
    IF arrivals = <<>> THEN <<>>
    ELSE LET arrival == Head(arrivals)
             rest == SubwayEntriesOwnRoute(line, Tail(arrivals))
         IN  IF arrival.minutes_away <= 0 THEN rest
             ELSE <<[route_id     |-> arrival.route_id,
                     stop_name    |-> arrival.station,
                     direction    |-> arrival.direction,
                     minutes_away |-> arrival.minutes_away,
                     status       |-> arrival.status,
                     mode         |-> "subway",
                     stop_lat     |-> None,
                     stop_lon     |-> None]>> \o rest

\* nearby.py 205-218: what one feed's arrivals add to the subway branch
RECURSIVE SubwayEntries(_, _)
SubwayEntries(line, arrivals) ==
    IF arrivals = <<>> THEN <<>>
    ELSE LET arrival == Head(arrivals)
             rest == SubwayEntries(line, Tail(arrivals))
         IN  IF arrival.minutes_away <= 0 THEN rest
             ELSE <<[route_id     |-> line,
                     stop_name    |-> arrival.station,
                     direction    |-> arrival.direction,
                     minutes_away |-> arrival.minutes_away,
                     status       |-> arrival.status,
                     mode         |-> "subway",
                     stop_lat     |-> None,
                     stop_lon     |-> None]>> \o rest

\* a variant of FeedContribution that drops the stale arrivals before it
\* takes the first five
FeedContributionOfFreshest(line, result) ==
    IF result.raised THEN <<>>
    ELSE Take(SubwayEntries(line, result.value), 5)

\* nearby.py 198-218: one (line, result) pair of the zip
FeedContribution(line, result) ==
    IF result.raised THEN <<>>
    ELSE SubwayEntries(line, Take(result.value, 5))

\* a variant of SubwayBranch in which the first failed fetch ends the loop
RECURSIVE SubwayBranchAborting(_, _)
SubwayBranchAborting(results, i) ==
    IF i > Len(results) \/ results[i][1].raised THEN <<>>
    ELSE FeedContribution(feed_lines[i], results[i][1]) \o SubwayBranchAborting(results, i + 1)

\* nearby.py 198-225: the loop over zip(feed_lines, feed_results)
RECURSIVE SubwayBranch(_, _)
SubwayBranch(results, i) ==
    IF i > Len(results) THEN <<>>
    ELSE FeedContribution(feed_lines[i], results[i][1]) \o SubwayBranch(results, i + 1)

\* nearby.py 262-275: what one stop's arrivals add to the bus branch
RECURSIVE BusEntries(_, _)
BusEntries(stop, arrivals) ==
    IF arrivals = <<>> THEN <<>>
    ELSE LET arrival == Head(arrivals)
         IN  <<[route_id     |-> arrival.route_id,
                stop_name    |-> stop.name,
                direction    |-> arrival.status_text,
                minutes_away |-> bus_minutes_away(arrival.expected_arrival),
                status       |-> arrival.status_text,
                mode         |-> "bus",
                stop_lat     |-> Some(stop.lat),
                stop_lon     |-> Some(stop.lon)]>> \o BusEntries(stop, Tail(arrivals))

\* nearby.py 251-275: one result of the gather over the stops
StopContribution(stop, result) ==
    IF result.raised THEN <<>> ELSE BusEntries(stop, result.value)

\* nearby.py 251-277: the loop over enumerate(stop_results)
RECURSIVE BusBranch(_, _, _)
BusBranch(stop_list, results, i) ==
    IF i > Len(results) THEN <<>>
    ELSE StopContribution(stop_list[i], results[i][1]) \o BusBranch(stop_list, results, i + 1)

\* a variant of collect_all in which a failed subway branch discards the buses
collect_all_or_nothing(subway, bus) ==
    IF subway.raised \/ bus.raised THEN <<>> ELSE subway.value \o bus.value

\* nearby.py 97-107: the two gathered branch outcomes merged
collect_all(subway, bus) ==
    (IF subway.raised THEN <<>> ELSE subway.value)
    \o (IF bus.raised THEN <<>> ELSE bus.value)

\* a variant of nearby_transit that cuts to 20 before it sorts
cut_then_sort(results) == SortByMinutes(Take(results, 20))

\* nearby.py 57-59
nearby_transit(results) == Take(SortByMinutes(results), 20)

\* str.upper() on the letters a-z
Upper(s) == [k \in DOMAIN s |-> IF s[k] >= 97 /\ s[k] <= 122 THEN s[k] - 32 ELSE s[k]]

\* nearby.py 28-39: _SUBWAY_COLORS.get(name)
SUBWAY_COLORS(name) ==
    IF name \in {<<49>>, <<50>>, <<51>>} THEN Some("#EE352E")
    ELSE IF name \in {<<52>>, <<53>>, <<54>>} THEN Some("#00933C")
    ELSE IF name = <<55>> THEN Some("#B933AD")
    ELSE IF name \in {<<65>>, <<67>>, <<69>>} THEN Some("#0039A6")
    ELSE IF name \in {<<66>>, <<68>>, <<70>>, <<77>>} THEN Some("#FF6319")
    ELSE IF name = <<71>> THEN Some("#6CBE45")
    ELSE IF name \in {<<74>>, <<90>>} THEN Some("#996633")
    ELSE IF name = <<76>> THEN Some("#A7A9AC")
    ELSE IF name \in {<<78>>, <<81>>, <<82>>, <<87>>} THEN Some("#FCCC0A")
    ELSE IF name \in {<<83>>, <<83, 73>>} THEN Some("#808183")
    ELSE None

\* "MTA NYCT_"
strAgencyPrefix == <<77, 84, 65, 32, 78, 89, 67, 84, 95>>

\* nearby.py 115-119
display_name(route_id) ==
    IF Len(route_id) >= 9 /\ SubSeq(route_id, 1, 9) = strAgencyPrefix
    THEN SubSeq(route_id, 10, Len(route_id))
    ELSE route_id

\* keys of a dict in insertion order: the distinct values of s, first
\* occurrence first
RECURSIVE Distinct(_)
Distinct(s) ==
    IF s = <<>> THEN <<>>
    ELSE LET front == Distinct(DropLast(s))
             x == s[Len(s)]
         IN  IF \E k \in DOMAIN front : front[k] = x THEN front ELSE Append(front, x)

RECURSIVE Filter(_, _, _)
Filter(s, route_id, direction) ==
    IF s = <<>> THEN <<>>
    ELSE (IF Head(s).route_id = route_id /\ (direction = None \/ Head(s).direction = direction[1])
          THEN <<Head(s)>> ELSE <<>>) \o Filter(Tail(s), route_id, direction)

\* a variant of SortByDirection that keeps the order of first appearance
KeepDirectionOrder(s) == s

\* directions.sort(key=lambda d: d.direction)
RECURSIVE InsertByDirection(_, _)
InsertByDirection(x, s) ==
    IF s = <<>> THEN <<x>>
    ELSE IF StrLess(x.direction, Head(s).direction) THEN <<x>> \o s
    ELSE <<Head(s)>> \o InsertByDirection(x, Tail(s))

RECURSIVE SortByDirection(_)
SortByDirection(s) ==
    IF s = <<>> THEN <<>>
    ELSE InsertByDirection(s[Len(s)], SortByDirection(DropLast(s)))

\* nearby.py 168-175
RECURSIVE MinMinutes(_)
MinMinutes(arrivals) ==
    IF arrivals = <<>> THEN 999
    ELSE Min(Head(arrivals).minutes_away, MinMinutes(Tail(arrivals)))

RECURSIVE soonest_minutes_of(_)
soonest_minutes_of(directions) ==
    IF directions = <<>> THEN 999
    ELSE Min(MinMinutes(Head(directions).arrivals), soonest_minutes_of(Tail(directions)))

soonest_minutes(group) == soonest_minutes_of(group.directions)

\* groups.sort(key=_soonest_minutes)
RECURSIVE InsertBySoonest(_, _)
InsertBySoonest(x, s) ==
    IF s = <<>> THEN <<x>>
    ELSE IF soonest_minutes(x) < soonest_minutes(Head(s)) THEN <<x>> \o s
    ELSE <<Head(s)>> \o InsertBySoonest(x, Tail(s))

RECURSIVE SortBySoonest(_)
SortBySoonest(s) ==
    IF s = <<>> THEN <<>>
    ELSE InsertBySoonest(s[Len(s)], SortBySoonest(DropLast(s)))

\* a variant of RouteDirections in which a bucket keeps its soonest arrival
\* only
RouteDirectionsSoonestOnly(flat, route_id) ==
    LET mine == Filter(flat, route_id, None)
        keys == Distinct([k \in DOMAIN mine |-> mine[k].direction])
    IN  SortByDirection(
            [k \in DOMAIN keys |->
                [direction |-> keys[k],
                 arrivals  |-> Take(SortByMinutes(Filter(flat, route_id, Some(keys[k]))), 1)]])

\* nearby.py 144-150: the direction buckets of one route, sorted
RouteDirections(flat, route_id) ==
    LET mine == Filter(flat, route_id, None)
        keys == Distinct([k \in DOMAIN mine |-> mine[k].direction])
    IN  SortByDirection(
            [k \in DOMAIN keys |->
                [direction |-> keys[k],
                 arrivals  |-> SortByMinutes(Filter(flat, route_id, Some(keys[k])))]])

\* a variant of RouteGroup that looks up a color for a group of any mode
RouteGroupColoringAll(flat, route_id) ==
    LET first == Filter(flat, route_id, None)[1]
        display == display_name(route_id)
    IN  [route_id     |-> route_id,
         display_name |-> display,
         mode         |-> first.mode,
         color_hex    |-> SUBWAY_COLORS(Upper(display)),
         directions   |-> RouteDirections(flat, route_id)]

\* nearby.py 136-160: the group of one route
RouteGroup(flat, route_id) ==
    LET first == Filter(flat, route_id, None)[1]
        display == display_name(route_id)
    IN  [route_id     |-> route_id,
         display_name |-> display,
         mode         |-> first.mode,
         color_hex    |-> IF first.mode = "subway" THEN SUBWAY_COLORS(Upper(display)) ELSE None,
         directions   |-> RouteDirections(flat, route_id)]

\* nearby.py 122-165
group_arrivals(flat) ==
    LET routes == Distinct([k \in DOMAIN flat |-> flat[k].route_id])
    IN  SortBySoonest([k \in DOMAIN routes |-> RouteGroup(flat, routes[k])])

(***************************************************************************)
(* State                                                                   *)
(***************************************************************************)
\* the tables the services parse from static GTFS files and keep in an
\* lru_cache (station_lookup.py 27, subway_shapes.py 51, 83, 129)
StaticTables == {"stops", "shapes", "route_shapes", "shape_stops"}

VARIABLES
    handler,        \* the route handler that is running ("none": no request yet)
    pc,             \* "idle", "running" or "done"
    requests,       \* upstream HTTP requests issued by the bus client call in progress
    ns_pc,          \* get_nearby_stops: "idle", "awaiting", "sleeping", "returned"
    attempt,        \* get_nearby_stops: the loop variable
    sleeps,         \* get_nearby_stops: asyncio.sleep calls made
    last_error,     \* get_nearby_stops: None or Some(exception)
    ns_result,      \* get_nearby_stops: None, or Some of what it returned or raised
    subway_pc,      \* _fetch_nearby_subway: "idle", "gather", "done"
    feed_results,   \* per feed line: None while pending, else Some(outcome)
    subway_results, \* the subway branch as gathered by _collect_all
    bus_pc,         \* _fetch_nearby_buses: "idle", "stops", "gather", "done"
    stops,          \* the stops get_nearby_stops returned
    stop_results,   \* per queried stop: None while pending, else Some(outcome)
    bus_results,    \* the bus branch as gathered by _collect_all
    response,       \* None, or Some of the HTTP response sent to the client
    result,         \* a directly invoked operation: None, or Some of what it returned or raised
    replies,        \* a directly invoked operation: the upstream replies it has received
    upstream_feed,  \* the feed message the subway upstream is preparing as its reply
    trips_txt,      \* the rows of trips.txt, in file order
    route_shapes_cache, \* None, or Some of what _load_route_shapes returned (lru_cache)
    polyline_input, \* the coordinate list a caller of _encode_polyline is building
    polyline_output, \* None, or Some of the string _encode_polyline returned
    params,         \* get_nearby_stops: None, or Some of the query parameters it sends
    request,        \* None, or Some of the query parameters of the request being handled
    completed,      \* the branches of _collect_all, in the order in which they finished
    arrivals_input, \* what get_arrivals_for_line returned for the feed being merged
    entries_output, \* None, or Some of the line and the entries its feed contributed
    flat_input,     \* the flat list a caller of _group_arrivals is building
    groups_output,  \* None, or Some of what _group_arrivals returned
    caches,         \* per static table: None, or Some of what the lru_cache holds
    loader_runs,    \* per static table: how often the body of its loader has run
    remembered,     \* None, or Some of an earlier query of the tables and its answer
    answered,       \* None, or Some of the latest query of the tables and its answer
    stops_txt       \* the rows stops.txt holds after those of the sample table

nsVars == <<requests, ns_pc, attempt, sleeps, last_error, ns_result, params>>

subwayVars == <<subway_pc, feed_results, subway_results>>

busVars == <<bus_pc, stops, stop_results, bus_results>>

directVars == <<result, replies, upstream_feed>>

shapeVars == <<trips_txt, route_shapes_cache, polyline_input, polyline_output>>

requestVars == <<request, completed>>

groupVars == <<arrivals_input, entries_output, flat_input, groups_output>>

tableVars == <<caches, loader_runs, remembered, answered, stops_txt>>

vars == <<handler, pc, nsVars, subwayVars, busVars, response, directVars, shapeVars,
          requestVars, groupVars, tableVars>>

Init ==
    /\ handler = "none"
    /\ pc = "idle"
    /\ requests = 0
    /\ ns_pc = "idle"
    /\ attempt = 0
    /\ sleeps = 0
    /\ last_error = None
    /\ ns_result = None
    /\ subway_pc = "idle"
    /\ feed_results = <<>>
    /\ subway_results = None
    /\ bus_pc = "idle"
    /\ stops = <<>>
    /\ stop_results = <<>>
    /\ bus_results = None
    /\ response = None
    /\ result = None
    /\ replies = <<>>
    /\ upstream_feed = <<>>
    /\ trips_txt = <<>>
    /\ route_shapes_cache = None
    /\ polyline_input = <<>>
    /\ polyline_output = None
    /\ params = None
    /\ request = None
    /\ completed = <<>>
    /\ arrivals_input = <<>>
    /\ entries_output = None
    /\ flat_input = <<>>
    /\ groups_output = None
    /\ caches = [table \in StaticTables |-> None]
    /\ loader_runs = [table \in StaticTables |-> 0]
    /\ remembered = None
    /\ answered = None
    /\ stops_txt = <<>>

(***************************************************************************)
(* get_nearby_stops (bus_client.py 123-192)                                *)
(***************************************************************************)
\* n / d rounded to the nearest integer, as the format f"{x:.6f}" rounds
RoundDiv(n, d) == (2 * n + d) \div (2 * d)

\* bus_client.py 143-157: the query parameters; the spans are in millionths
\* of a degree, as the six decimals of the formatted strings give them
\* (radius / 111_000 degrees is radius * 1000 / 111 millionths)
StopsParams(lat, lon, effective_radius) ==
    [lat     |-> lat,
     lon     |-> lon,
     latSpan |-> Max(5000, RoundDiv(effective_radius * 1000, 111)),
     lonSpan |-> Max(5000, RoundDiv(effective_radius * 1000, 85))]

\* the call: settings read, first pass of the loop reaches client.get
CallNearbyStops(lat, lon, radius_m) ==
    IF bus_endpoints
    THEN /\ ns_pc' = "awaiting"
         /\ requests' = 1
         /\ params' = Some(StopsParams(lat, lon, IF radius_m # None THEN radius_m[1]
                                                 ELSE search_radius_meters))
         /\ UNCHANGED ns_result
    ELSE /\ ns_pc' = "returned"
         /\ requests' = 0
         /\ params' = None
         /\ ns_result' = Some(Return(<<>>))

\* a variant of NearbyStopsFailed that sleeps and retries after the last
\* attempt of the budget as well
NearbyStopsFailedOverBudget(exc) ==
    IF exc.class \in {"HTTPStatusError", "TimeoutException"}
    THEN /\ last_error' = Some(exc)
         /\ IF attempt <= http_max_retries
            THEN /\ ns_pc' = "sleeping"
                 /\ sleeps' = sleeps + 1
                 /\ UNCHANGED ns_result
            ELSE /\ ns_pc' = "returned"
                 /\ ns_result' = Some(Raise(exc))
                 /\ UNCHANGED sleeps
    ELSE /\ ns_pc' = "returned"
         /\ ns_result' = Some(Raise(exc))
         /\ UNCHANGED <<last_error, sleeps>>

\* a variant of NearbyStopsFailed that does not retry a rejection of the
\* credentials (401, 403)
NearbyStopsFailedAuthFinal(exc) ==
    IF exc.class \in {"HTTPStatusError", "TimeoutException"} /\ exc.code \notin {401, 403}
    THEN /\ last_error' = Some(exc)
         /\ IF attempt < http_max_retries
            THEN /\ ns_pc' = "sleeping"
                 /\ sleeps' = sleeps + 1
                 /\ UNCHANGED ns_result
            ELSE /\ ns_pc' = "returned"
                 /\ ns_result' = Some(Raise(exc))
                 /\ UNCHANGED sleeps
    ELSE /\ ns_pc' = "returned"
         /\ ns_result' = Some(Raise(exc))
         /\ UNCHANGED <<last_error, sleeps>>

\* bus_client.py 184-191: the except clause and what follows it
NearbyStopsFailed(exc) ==
    IF exc.class \in {"HTTPStatusError", "TimeoutException"}
    THEN /\ last_error' = Some(exc)
         /\ IF attempt < http_max_retries
            THEN /\ ns_pc' = "sleeping"
                 /\ sleeps' = sleeps + 1
                 /\ UNCHANGED ns_result
            ELSE /\ ns_pc' = "returned"
                 /\ ns_result' = Some(Raise(exc))
                 /\ UNCHANGED sleeps
    ELSE /\ ns_pc' = "returned"
         /\ ns_result' = Some(Raise(exc))
         /\ UNCHANGED <<last_error, sleeps>>

\* bus_client.py 165-191: the upstream reply to one attempt arrives
NearbyStopsReply(reply) ==
    /\ ns_pc = "awaiting"
    /\ LET data == fetch_bus_json(reply, attempt)
       IN  IF data.raised
           THEN NearbyStopsFailed(data.exc)
           ELSE /\ ns_pc' = "returned"
                /\ ns_result' = Some(Return(ParseStops(data.value)))
                /\ UNCHANGED <<last_error, sleeps>>
    /\ UNCHANGED <<requests, attempt, params>>

\* bus_client.py 187, 163-165: the sleep ends, the next attempt is issued
NearbyStopsWake ==
    /\ ns_pc = "sleeping"
    /\ ns_pc' = "awaiting"
    /\ attempt' = attempt + 1
    /\ requests' = requests + 1
    /\ UNCHANGED <<sleeps, last_error, ns_result, params>>

\* the caller has taken the outcome: the frame of the call is gone
ReleaseNearbyStops ==
    /\ ns_pc' = "idle"
    /\ requests' = 0
    /\ attempt' = 0
    /\ sleeps' = 0
    /\ last_error' = None
    /\ ns_result' = None
    /\ params' = None

(***************************************************************************)
(* /nearby and /nearby/grouped (routers/nearby.py)                         *)
(***************************************************************************)
\* a variant of StartNearby that hands the radius of the request to
\* get_nearby_stops
StartNearbyPassingRadius(lat, lon, radius) ==
    /\ pc = "idle"
    /\ handler' = "nearby"
    /\ pc' = "running"
    /\ request' = Some([lat |-> lat, lon |-> lon, radius |-> radius])
    /\ completed' = <<>>
    /\ subway_pc' = "gather"
    /\ feed_results' = [i \in DOMAIN feed_lines |-> None]
    /\ bus_pc' = "stops"
    /\ CallNearbyStops(lat, lon, Some(radius))
    /\ UNCHANGED <<attempt, sleeps, last_error, subway_results, stops, stop_results,
                   bus_results, response, directVars, shapeVars, groupVars, tableVars>>

\* nearby.py 45-57, 63-77, 90-95, 194-195, 238: the handler starts both
\* branches; each runs to its first await.  nearby_transit and
\* nearby_transit_grouped run the same code up to the return of
\* _collect_all, so they are told apart where they differ: at the answer.
StartNearby(lat, lon, radius) ==
    /\ pc = "idle"
    /\ handler' = "nearby"
    /\ pc' = "running"
    /\ request' = Some([lat |-> lat, lon |-> lon, radius |-> radius])
    /\ completed' = <<>>
    /\ subway_pc' = "gather"
    /\ feed_results' = [i \in DOMAIN feed_lines |-> None]
    /\ bus_pc' = "stops"
    /\ CallNearbyStops(lat, lon, None)
    /\ UNCHANGED <<attempt, sleeps, last_error, subway_results, stops, stop_results,
                   bus_results, response, directVars, shapeVars, groupVars, tableVars>>

\* data_cleaner.py 39-82: get_arrivals_for_line on the reply of its feed
ArrivalsForLine(reply) ==
    LET raw == fetch_protobuf(reply)
    IN  IF raw.raised THEN raw ELSE Return(get_arrivals_for_line(raw.value))

\* nearby.py 194-195: one task of the gather over feed_lines completes
FeedReply(i, reply) ==
    /\ subway_pc = "gather"
    /\ feed_results[i] = None
    /\ feed_results' = [feed_results EXCEPT ![i] = Some(ArrivalsForLine(reply))]
    /\ UNCHANGED <<handler, pc, nsVars, subway_pc, subway_results, busVars, response, directVars, shapeVars, requestVars, groupVars, tableVars>>

\* asyncio.gather(*tasks, return_exceptions=True) is complete
Gathered(results) == \A i \in DOMAIN results : results[i] # None

\* nearby.py 195-225: the gather returns, the loop builds the branch result
SubwayJoin ==
    /\ subway_pc = "gather"
    /\ Gathered(feed_results)
    /\ subway_pc' = "done"
    /\ subway_results' = Some(Return(SubwayBranch(feed_results, 1)))
    /\ completed' = Append(completed, "subway")
    /\ UNCHANGED <<handler, pc, nsVars, feed_results, busVars, response, directVars, shapeVars,
                   request, groupVars, tableVars>>

\* nearby.py 93-95: a branch coroutine that raises (the test double of
\* test_nearby.py 208-209) is gathered as its exception
SubwayRaises ==
    /\ subway_pc = "gather"
    /\ \A i \in DOMAIN feed_results : feed_results[i] = None
    /\ subway_pc' = "done"
    /\ subway_results' = Some(Raise(Exc("Exception", 0, 0)))
    /\ completed' = Append(completed, "subway")
    /\ UNCHANGED <<handler, pc, nsVars, feed_results, busVars, response, directVars, shapeVars,
                   request, groupVars, tableVars>>

BusRaises ==
    /\ bus_pc = "stops"
    /\ ns_pc = "awaiting"
    /\ attempt = 0
    /\ bus_pc' = "done"
    /\ ns_pc' = "idle"
    /\ bus_results' = Some(Raise(Exc("Exception", 0, 0)))
    /\ completed' = Append(completed, "bus")
    /\ UNCHANGED <<handler, pc, requests, attempt, sleeps, last_error, ns_result, params,
                   subwayVars, stops, stop_results, response, directVars, shapeVars,
                   request, groupVars, tableVars>>

\* nearby.py 237-249: get_nearby_stops is back
BusStops ==
    /\ bus_pc = "stops"
    /\ ns_pc = "returned"
    /\ LET got == ns_result[1]
       IN  IF got.raised \/ got.value = <<>>
           THEN /\ bus_pc' = "done"
                /\ bus_results' = Some(Return(<<>>))
                /\ completed' = Append(completed, "bus")
                /\ UNCHANGED <<stops, stop_results>>
           ELSE /\ bus_pc' = "gather"
                /\ stops' = got.value
                /\ stop_results' = [j \in DOMAIN Take(got.value, 3) |-> None]
                /\ UNCHANGED <<bus_results, completed>>
    /\ ReleaseNearbyStops
    /\ UNCHANGED <<handler, pc, subwayVars, response, directVars, shapeVars,
                   request, groupVars, tableVars>>

\* bus_client.py 200-296: get_realtime_arrivals on the reply for its stop
RealtimeArrivals(stop_id, reply) ==
    LET data == fetch_bus_json(reply, 0)
    IN  IF data.raised THEN data ELSE Return(ParseVisits(data.value, stop_id))

\* nearby.py 248-249: one task of the gather over stops[:3] completes
StopReply(j, reply) ==
    /\ bus_pc = "gather"
    /\ j \in DOMAIN stop_results
    /\ stop_results[j] = None
    /\ stop_results' = [stop_results EXCEPT ![j] = Some(RealtimeArrivals(stops[j].id, reply))]
    /\ UNCHANGED <<handler, pc, nsVars, subwayVars, bus_pc, stops, bus_results, response, directVars, shapeVars, requestVars, groupVars, tableVars>>

\* nearby.py 249-277
BusJoin ==
    /\ bus_pc = "gather"
    /\ Gathered(stop_results)
    /\ bus_pc' = "done"
    /\ bus_results' = Some(Return(BusBranch(stops, stop_results, 1)))
    /\ completed' = Append(completed, "bus")
    /\ UNCHANGED <<handler, pc, nsVars, subwayVars, stops, stop_results, response, directVars,
                   shapeVars, request, groupVars, tableVars>>

\* a variant of NearbyRespond that merges the two branches in the order in
\* which they finished
NearbyRespondAsCompleted ==
    /\ pc = "running" /\ handler = "nearby"
    /\ subway_results # None /\ bus_results # None
    /\ pc' = "done"
    /\ response' = Some([endpoint |-> "nearby", status |-> 200,
                         body |-> nearby_transit(
                                      IF completed[1] = "bus"
                                      THEN collect_all(bus_results[1], subway_results[1])
                                      ELSE collect_all(subway_results[1], bus_results[1]))])
    /\ UNCHANGED <<handler, nsVars, subwayVars, busVars, directVars, shapeVars, requestVars, groupVars, tableVars>>

\* nearby.py 93-107, 57-59: both branches are gathered; /nearby answers
NearbyRespond ==
    /\ pc = "running" /\ handler = "nearby"
    /\ subway_results # None /\ bus_results # None
    /\ pc' = "done"
    /\ response' = Some([endpoint |-> "nearby", status |-> 200,
                         body |-> nearby_transit(collect_all(subway_results[1], bus_results[1]))])
    /\ UNCHANGED <<handler, nsVars, subwayVars, busVars, directVars, shapeVars, requestVars, groupVars, tableVars>>

\* nearby.py 93-107, 77-78: both branches are gathered; /nearby/grouped answers
GroupedRespond ==
    /\ pc = "running" /\ handler = "nearby"
    /\ subway_results # None /\ bus_results # None
    /\ pc' = "done"
    /\ response' = Some([endpoint |-> "nearby_grouped", status |-> 200,
                         body |-> group_arrivals(collect_all(subway_results[1], bus_results[1]))])
    /\ UNCHANGED <<handler, nsVars, subwayVars, busVars, directVars, shapeVars, requestVars, groupVars, tableVars>>

\* what the upstreams of a nearby request may answer
FeedReplies(i) == {Reply(403, <<>>), Reply(200, FeedBody(i))}

StopsReplies == {Reply(504, <<>>)} \cup {Reply(200, StopsBody(n)) : n \in {0, MaxStops}}

VisitsReplies(j) == {Timeout, Reply(200, VisitsBody(j, MaxVisits))}

Next ==
    \/ StartNearby(0, 0, nearby_radius_default)
    \/ \E i \in DOMAIN feed_lines : \E reply \in FeedReplies(i) : FeedReply(i, reply)
    \/ SubwayJoin
    \/ SubwayRaises
    \/ \E reply \in StopsReplies :
          /\ handler = "nearby"
          /\ NearbyStopsReply(reply)
          /\ UNCHANGED <<handler, pc, subwayVars, busVars, response, directVars, shapeVars, requestVars, groupVars, tableVars>>
    \/ /\ handler = "nearby"
       /\ NearbyStopsWake
       /\ UNCHANGED <<handler, pc, subwayVars, busVars, response, directVars, shapeVars, requestVars, groupVars, tableVars>>
    \/ BusRaises
    \/ BusStops
    \/ \E j \in 1..3 : \E reply \in VisitsReplies(j) : StopReply(j, reply)
    \/ BusJoin
    \/ NearbyRespond
    \/ GroupedRespond

Spec == Init /\ [][Next]_vars

(***************************************************************************)
(* /nearby and /nearby/grouped called with a radius, the stops-for-location *)
(* upstream answering with the stops inside the box it is asked for         *)
(***************************************************************************)
\* The sample stops lie north of the request, stop i at a latitude of
\* SampleStop(i).lat thousandths of a degree; the upstream returns the ones
\* within half the latitude span of the query.
StopsInBox(query) ==
    SelectSeq(StopsBody(MaxStops),
              LAMBDA stop : 2 * 1000 * (stop.lat - query.lat) <= query.latSpan)

NextRadius ==
    \/ \E radius \in RadiusValues : StartNearby(0, 0, radius)
    \/ \E i \in DOMAIN feed_lines : FeedReply(i, Reply(200, FeedBody(i)))
    \/ SubwayJoin
    \/ /\ handler = "nearby"
       /\ ns_pc = "awaiting"
       /\ \E reply \in {Reply(504, <<>>), Reply(200, StopsInBox(params[1]))} :
              NearbyStopsReply(reply)
       /\ UNCHANGED <<handler, pc, subwayVars, busVars, response, directVars, shapeVars,
                      requestVars, groupVars, tableVars>>
    \/ /\ handler = "nearby"
       /\ NearbyStopsWake
       /\ UNCHANGED <<handler, pc, subwayVars, busVars, response, directVars, shapeVars,
                      requestVars, groupVars, tableVars>>
    \/ BusStops
    \/ \E j \in 1..3 : \E reply \in VisitsReplies(j) : StopReply(j, reply)
    \/ BusJoin
    \/ NearbyRespond
    \/ GroupedRespond

SpecRadius == Init /\ [][NextRadius]_vars

(***************************************************************************)
(* Operations invoked directly, outside the nearby aggregation             *)
(***************************************************************************)
\* config.py 64-87: the feed key of a line id, None for an unknown line
LINE_TO_URL_KEY(line) ==
    IF line \in {<<65>>, <<67>>, <<69>>} THEN Some("subway_ace")
    ELSE IF line = <<71>> THEN Some("subway_g")
    ELSE IF line \in {<<78>>, <<81>>, <<82>>, <<87>>} THEN Some("subway_nqrw")
    ELSE IF line \in {<<49>>, <<50>>, <<51>>, <<52>>, <<53>>, <<54>>} THEN Some("subway_123456")
    ELSE IF line \in {<<66>>, <<68>>, <<70>>, <<77>>} THEN Some("subway_bdfm")
    ELSE IF line \in {<<74>>, <<90>>} THEN Some("subway_jz")
    ELSE IF line = <<76>> THEN Some("subway_l")
    ELSE IF line = <<83, 73>> THEN Some("subway_si")
    ELSE None

\* bus_client.py 66-77: data.list -> BusRoute
RECURSIVE ParseRoutes(_)
ParseRoutes(routes_data) ==
    IF routes_data = <<>> THEN <<>>
    ELSE LET r == Head(routes_data)
         IN  <<[id |-> r.id, short_name |-> r.shortName, long_name |-> r.longName]>>
             \o ParseRoutes(Tail(routes_data))

\* bus_client.py 50-78 on the reply of routes-for-agency
get_routes(reply) ==
    LET data == fetch_bus_json(reply, 0)
    IN  IF data.raised THEN data ELSE Return(ParseRoutes(data.value))

\* bus_client.py 81-120 on the reply of stops-for-route
get_stops(reply) ==
    LET data == fetch_bus_json(reply, 0)
    IN  IF data.raised THEN data ELSE Return(ParseStops(data.value))

\* bus_client.py 341-383: VehicleActivity -> BusVehicle; an activity without
\* a position is skipped
RECURSIVE ParseVehicles(_)
ParseVehicles(activities) ==
    IF activities = <<>> THEN <<>>
    ELSE LET journey == Head(activities)
             rest == ParseVehicles(Tail(activities))
         IN  IF journey.Latitude = None \/ journey.Longitude = None THEN rest
             ELSE <<[vehicle_id |-> journey.VehicleRef,
                     lat        |-> journey.Latitude[1],
                     lon        |-> journey.Longitude[1]]>> \o rest

\* bus_client.py 304-385 on the reply of vehicle-monitoring
get_vehicle_positions(reply) ==
    LET data == fetch_bus_json(reply, 0)
    IN  IF data.raised THEN data ELSE Return(ParseVehicles(data.value))

\* bus_client.py 409-414: the non-empty encoded polylines
RECURSIVE ParsePolylines(_)
ParsePolylines(polys) ==
    IF polys = <<>> THEN <<>>
    ELSE (IF Head(polys) # <<>> THEN <<Head(polys)>> ELSE <<>>) \o ParsePolylines(Tail(polys))

\* bus_client.py 388-436 on the reply of stops-for-route with polylines
get_route_shape(reply) ==
    LET data == fetch_bus_json(reply, 0)
    IN  IF data.raised THEN data
        ELSE Return([polylines |-> ParsePolylines(data.value.polylines),
                     stops     |-> ParseStops(data.value.stops)])

\* data_cleaner.py 94-121: only WARNING and SEVERE alerts, severity lower-cased
RECURSIVE ParseAlerts(_)
ParseAlerts(entities) ==
    IF entities = <<>> THEN <<>>
    ELSE LET alert_data == Head(entities)
             rest == ParseAlerts(Tail(entities))
         IN  IF alert_data.severity_level \notin {"WARNING", "SEVERE"} THEN rest
             ELSE <<[route_id |-> alert_data.route_id,
                     severity |-> IF alert_data.severity_level = "WARNING"
                                  THEN "warning" ELSE "severe"]>> \o rest

\* data_cleaner.py 85-123 on the reply of the alerts feed
get_alerts(reply) ==
    LET data == fetch_bus_json(reply, 0)
    IN  IF data.raised THEN data ELSE Return(ParseAlerts(data.value))

\* data_cleaner.py 135-150: the units whose isactive is not Y (or y)
RECURSIVE ParseOutages(_)
ParseOutages(outages) ==
    IF outages = <<>> THEN <<>>
    ELSE LET item == Head(outages)
             rest == ParseOutages(Tail(outages))
         IN  IF item.isactive \in {"Y", "y"} THEN rest
             ELSE <<[station |-> item.station, equipment_type |-> item.equipmenttype]>>
                  \o rest

\* data_cleaner.py 126-152 on the reply of the elevator feed
get_broken_elevators(reply) ==
    LET data == fetch_bus_json(reply, 0)
    IN  IF data.raised THEN data ELSE Return(ParseOutages(data.value))

\* routers/bus.py 31-41 (and 47-57, 68-78, 84-94, 107-117, 129-139): the
\* answer of a bus handler to what its client call returned or raised
bus_router(op, outcome) ==
    IF ~outcome.raised
    THEN [endpoint |-> op, status |-> 200, body |-> outcome.value]
    ELSE IF outcome.exc.class = "HTTPStatusError" /\ outcome.exc.code \in {401, 403}
    THEN [endpoint |-> op, status |-> 503, body |-> "Bus API authentication failed or quota exceeded"]
    ELSE [endpoint |-> op, status |-> 502, body |-> outcome.exc]

\* the bus handlers that await one client call making one upstream request
BusOps == {"bus_routes", "bus_stops", "bus_live", "bus_vehicles", "bus_route_shape"}

\* the handlers of routers/status.py
StatusOps == {"alerts", "accessibility"}

\* what a bus client call returns when no bus endpoints are configured
\* (bus_client.py 54-55, 89-90, 214-215, 315-316, 397-398)
NoEndpoints(op) ==
    IF op = "bus_route_shape" THEN [polylines |-> <<>>, stops |-> <<>>] ELSE <<>>

\* bus.py 29-32, 45-48, 82-85, 98-108, 121-130: a bus handler is called and
\* its client call reaches the upstream request
InvokeBus(op) ==
    /\ pc = "idle"
    /\ handler' = op
    /\ IF bus_endpoints
       THEN /\ pc' = "running"
            /\ requests' = 1
            /\ UNCHANGED <<response, result>>
       ELSE /\ pc' = "done"
            /\ requests' = 0
            /\ result' = Some(Return(NoEndpoints(op)))
            /\ response' = Some(bus_router(op, Return(NoEndpoints(op))))
    /\ UNCHANGED <<ns_pc, attempt, sleeps, last_error, ns_result, params, subwayVars, busVars, shapeVars, requestVars, groupVars, tableVars, replies,
                   upstream_feed>>

\* a variant of BusReply in which a failed request is issued once more
BusReplyRetrying(reply) ==
    /\ pc = "running"
    /\ handler \in BusOps
    /\ replies' = Append(replies, reply)
    /\ IF fetch_bus_json(reply, 0).raised /\ requests < 2
       THEN /\ requests' = requests + 1
            /\ UNCHANGED <<pc, result, response>>
       ELSE /\ pc' = "done"
            /\ result' = Some(fetch_bus_json(reply, 0))
            /\ response' = Some(bus_router(handler, fetch_bus_json(reply, 0)))
            /\ UNCHANGED requests
    /\ UNCHANGED <<handler, ns_pc, attempt, sleeps, last_error, ns_result, params, subwayVars,
                   busVars, shapeVars, requestVars, groupVars, tableVars, upstream_feed>>

\* bus.py 31-41, 47-57, 84-94, 107-117, 129-139: the upstream replies; the
\* client call returns or raises and the handler answers
BusReply(reply) ==
    /\ pc = "running"
    /\ handler \in BusOps
    /\ LET outcome ==
               CASE handler = "bus_routes"      -> get_routes(reply)
                 [] handler = "bus_stops"       -> get_stops(reply)
                 [] handler = "bus_live"        -> RealtimeArrivals(<<51, 48, 56>>, reply)
                 [] handler = "bus_vehicles"    -> get_vehicle_positions(reply)
                 [] handler = "bus_route_shape" -> get_route_shape(reply)
       IN  /\ result' = Some(outcome)
           /\ response' = Some(bus_router(handler, outcome))
    /\ replies' = Append(replies, reply)
    /\ pc' = "done"
    /\ UNCHANGED <<handler, nsVars, subwayVars, busVars, shapeVars, requestVars, groupVars, tableVars, upstream_feed>>

\* bus.py 61-69: /bus/nearby calls get_nearby_stops
InvokeBusNearby(lat, lon, radius) ==
    /\ pc = "idle"
    /\ handler' = "bus_nearby"
    /\ pc' = "running"
    /\ request' = Some([lat |-> lat, lon |-> lon, radius |-> radius])
    /\ CallNearbyStops(lat, lon, Some(radius))
    /\ UNCHANGED <<attempt, sleeps, last_error, subwayVars, busVars, response, directVars,
                   shapeVars, completed, groupVars, tableVars>>

\* bus.py 68-78: get_nearby_stops is back; /bus/nearby answers
BusNearbyRespond ==
    /\ pc = "running"
    /\ handler = "bus_nearby"
    /\ ns_pc = "returned"
    /\ result' = ns_result
    /\ response' = Some(bus_router(handler, ns_result[1]))
    /\ pc' = "done"
    /\ UNCHANGED <<handler, nsVars, subwayVars, busVars, shapeVars, requestVars, groupVars, tableVars, replies, upstream_feed>>

\* subway.py 145-154: /subway/{line_id} is called
InvokeSubway(line_id) ==
    /\ pc = "idle"
    /\ handler' = "subway_arrivals"
    /\ IF LINE_TO_URL_KEY(Upper(line_id)) = None
       THEN /\ pc' = "done"
            /\ requests' = 0
            /\ response' = Some([endpoint |-> "subway_arrivals", status |-> 404,
                                 body |-> "Unknown subway line"])
       ELSE /\ pc' = "running"
            /\ requests' = 1
            /\ UNCHANGED response
    /\ UNCHANGED <<ns_pc, attempt, sleeps, last_error, ns_result, params, subwayVars, busVars,
                   directVars, shapeVars, requestVars, groupVars, tableVars>>

\* subway.py 153-156: the feed replies; get_arrivals_for_line returns or
\* raises and the handler answers
SubwayReply(reply) ==
    /\ pc = "running"
    /\ handler = "subway_arrivals"
    /\ LET outcome == ArrivalsForLine(reply)
       IN  /\ result' = Some(outcome)
           /\ response' = Some(IF outcome.raised
                               THEN [endpoint |-> handler, status |-> 502, body |-> outcome.exc]
                               ELSE [endpoint |-> handler, status |-> 200, body |-> outcome.value])
    /\ replies' = Append(replies, reply)
    /\ pc' = "done"
    /\ UNCHANGED <<handler, nsVars, subwayVars, busVars, shapeVars, requestVars, groupVars, tableVars, upstream_feed>>

\* status.py 19-22, 28-31: /alerts or /accessibility is called
InvokeStatus(op) ==
    /\ pc = "idle"
    /\ handler' = op
    /\ pc' = "running"
    /\ requests' = 1
    /\ UNCHANGED <<ns_pc, attempt, sleeps, last_error, ns_result, params, subwayVars, busVars,
                   response, directVars, shapeVars, requestVars, groupVars, tableVars>>

\* status.py 21-24, 30-33: the feed replies; the client call returns or
\* raises and the handler answers
StatusReply(reply) ==
    /\ pc = "running"
    /\ handler \in StatusOps
    /\ LET outcome == IF handler = "alerts" THEN get_alerts(reply)
                      ELSE get_broken_elevators(reply)
       IN  /\ result' = Some(outcome)
           /\ response' = Some(IF outcome.raised
                               THEN [endpoint |-> handler, status |-> 502, body |-> outcome.exc]
                               ELSE [endpoint |-> handler, status |-> 200, body |-> outcome.value])
    /\ replies' = Append(replies, reply)
    /\ pc' = "done"
    /\ UNCHANGED <<handler, nsVars, subwayVars, busVars, shapeVars, requestVars, groupVars, tableVars, upstream_feed>>

(***************************************************************************)
(* Upstream replies to a directly invoked operation                        *)
(***************************************************************************)
\* the stop ids of a stop-time update: A1N is in the stop index; B2S is not,
\* its parent B2 is; Z9N and Z9 are not and have no parent in it
StuStopIds == {<<65, 49, 78>>, <<66, 50, 83>>, <<90, 57, 78>>, <<90, 57>>}

\* arrival.time of a stop-time update: 0 (unset), a past instant, and future
\* ones just short of a minute and on a whole minute
ArrivalTimes == {0, Now - 20, Now + 59, Now + 120}

StopTimeUpdates ==
    {[stop_id |-> sid, has_arrival |-> TRUE, time |-> t] : sid \in StuStopIds, t \in ArrivalTimes}
    \cup {[stop_id |-> sid, has_arrival |-> FALSE, time |-> 0] : sid \in StuStopIds}

\* the entities that may stand at position k of a feed: one without a trip
\* update, or a trip update (of route A or C) that has no stop-time update yet
EntitiesAt(k) ==
    {[has_trip_update |-> FALSE, route_id |-> <<>>, stop_time_update |-> <<>>],
     [has_trip_update |-> TRUE, route_id |-> IF k % 2 = 1 THEN <<65>> ELSE <<67>>,
      stop_time_update |-> <<>>]}

RECURSIVE CountStus(_)
CountStus(entities) ==
    IF entities = <<>> THEN 0
    ELSE Len(Head(entities).stop_time_update) + CountStus(Tail(entities))

\* the message the feed upstream is preparing gets one more entity
FeedAddsEntity(entity) ==
    /\ pc = "running"
    /\ handler = "subway_arrivals"
    /\ Len(upstream_feed) < MaxEntities
    /\ upstream_feed' = Append(upstream_feed, entity)
    /\ UNCHANGED <<handler, pc, nsVars, subwayVars, busVars, shapeVars, requestVars, groupVars, tableVars, response, result, replies>>

\* the last trip update of that message gets one more stop-time update
FeedAddsStu(stu) ==
    /\ pc = "running"
    /\ handler = "subway_arrivals"
    /\ upstream_feed # <<>>
    /\ upstream_feed[Len(upstream_feed)].has_trip_update
    /\ CountStus(upstream_feed) < MaxStus
    /\ upstream_feed' = [upstream_feed EXCEPT ![Len(upstream_feed)].stop_time_update = Append(@, stu)]
    /\ UNCHANGED <<handler, pc, nsVars, subwayVars, busVars, shapeVars, requestVars, groupVars, tableVars, response, result, replies>>

RoutesBodies ==
    {<<>>, <<[id |-> "MTA NYCT_B63", shortName |-> "B63", longName |-> "Bay Ridge"]>>}

VehiclesBody ==
    <<[VehicleRef |-> "MTA NYCT_1", Latitude |-> Some(40), Longitude |-> Some(74)],
      [VehicleRef |-> "MTA NYCT_2", Latitude |-> None, Longitude |-> Some(74)]>>

ShapeBody == [polylines |-> << <<97, 98>>, <<>> >>, stops |-> StopsBody(2)]

AlertsBody ==
    <<[severity_level |-> "WARNING", route_id |-> Some(<<65>>)],
      [severity_level |-> "INFO", route_id |-> Some(<<76>>)],
      [severity_level |-> "SEVERE", route_id |-> None]>>

OutagesBody ==
    <<[isactive |-> "Y", station |-> "Ash", equipmenttype |-> "EL"],
      [isactive |-> "N", station |-> "Bay", equipmenttype |-> "ES"]>>

\* the payloads the upstream of each operation may answer with
DirectBodies(op) ==
    CASE op = "bus_routes"      -> RoutesBodies
      [] op = "bus_stops"       -> {StopsBody(n) : n \in {0, 2}}
      [] op = "bus_nearby"      -> {StopsBody(n) : n \in {0, 2}}
      [] op = "bus_live"        -> {VisitsBody(1, 4), VisitsBody(1, 12)}
      [] op = "bus_vehicles"    -> {VehiclesBody}
      [] op = "bus_route_shape" -> {ShapeBody}
      [] op = "subway_arrivals" -> {upstream_feed}
      [] op = "alerts"          -> {AlertsBody}
      [] op = "accessibility"   -> {OutagesBody}
      [] OTHER                  -> {}

\* the answers of the upstream of each operation: a payload, or a failure in
\* place of one
DirectReplies(op) ==
    {Reply(200, body) : body \in DirectBodies(op)}
    \cup (IF upstream_feed = <<>> THEN FailureReplies ELSE {})

\* the line ids /subway/{line_id} is called with: a and X
LineIds == {<<97>>, <<88>>}

NextDirect ==
    \/ \E op \in BusOps : InvokeBus(op)
    \/ /\ pc = "running"
       /\ \E reply \in DirectReplies(handler) : BusReply(reply)
    \/ \E radius \in RadiusValues : InvokeBusNearby(0, 0, radius)
    \/ \E reply \in DirectReplies("bus_nearby") :
          /\ handler = "bus_nearby"
          /\ pc = "running"
          /\ NearbyStopsReply(reply)
          /\ replies' = Append(replies, reply)
          /\ UNCHANGED <<handler, pc, subwayVars, busVars, shapeVars, requestVars, groupVars, tableVars, response, result, upstream_feed>>
    \/ /\ handler = "bus_nearby"
       /\ NearbyStopsWake
       /\ UNCHANGED <<handler, pc, subwayVars, busVars, response, directVars, shapeVars, requestVars, groupVars, tableVars>>
    \/ BusNearbyRespond
    \/ \E line_id \in LineIds : InvokeSubway(line_id)
    \/ \E entity \in EntitiesAt(Len(upstream_feed) + 1) : FeedAddsEntity(entity)
    \/ \E stu \in StopTimeUpdates : FeedAddsStu(stu)
    \/ /\ pc = "running"
       /\ \E reply \in DirectReplies(handler) : SubwayReply(reply)
    \/ \E op \in StatusOps : InvokeStatus(op)
    \/ /\ pc = "running"
       /\ \E reply \in DirectReplies(handler) : StatusReply(reply)

SpecDirect == Init /\ [][NextDirect]_vars

(***************************************************************************)
(* Static GTFS data (subway_shapes.py)                                     *)
(***************************************************************************)
\* the shape ids of the sampled data files
ShapeIds == {"S1", "S2", "S3", "S4"}

\* A shape_stops.json: S1 passes A1N, the unknown Z9, B2 and C3 (a second
\* station named Ash); S2 passes the two platforms of A1; S3 passes A1S and
\* C3; S4 has no entry.
load_shape_stops ==
    [sid \in {"S1", "S2", "S3"} |->
        IF sid = "S1" THEN << <<65, 49, 78>>, <<90, 57>>, <<66, 50>>, <<67, 51>> >>
        ELSE IF sid = "S2" THEN << <<65, 49, 78>>, <<65, 49, 83>> >>
        ELSE << <<65, 49, 83>>, <<67, 51>> >>]

\* The rows of a shapes.txt, in file order, coordinates in millionths of a
\* degree (six decimals, none ending in 5): S1, S2 and S4 have points, S3
\* has none.
shapes_txt ==
    <<[shape_id |-> "S1", lat |-> 40730614, lon |-> -73990003, sequence |-> 2],
      [shape_id |-> "S1", lat |-> 40730452, lon |-> -73990167, sequence |-> 1],
      [shape_id |-> "S2", lat |-> 40730614, lon |-> -73990003, sequence |-> 0],
      [shape_id |-> "S1", lat |-> 40731008, lon |-> -73989841, sequence |-> 3],
      [shape_id |-> "S2", lat |-> 40730452, lon |-> -73990167, sequence |-> 1],
      [shape_id |-> "S4", lat |-> 40730452, lon |-> -73990167, sequence |-> 0]>>

\* pts.sort(key=lambda p: p.sequence): a stable sort
RECURSIVE InsertBySequence(_, _)
InsertBySequence(x, s) ==
    IF s = <<>> THEN <<x>>
    ELSE IF x.sequence < Head(s).sequence THEN <<x>> \o s
    ELSE <<Head(s)>> \o InsertBySequence(x, Tail(s))

RECURSIVE SortBySequence(_)
SortBySequence(s) ==
    IF s = <<>> THEN <<>>
    ELSE InsertBySequence(s[Len(s)], SortBySequence(DropLast(s)))

\* subway_shapes.py 60-70: the ShapePoints of one shape id, in file order
RECURSIVE ShapeRows(_, _)
ShapeRows(rows, shape_id) ==
    IF rows = <<>> THEN <<>>
    ELSE (IF Head(rows).shape_id = shape_id
          THEN <<[lat |-> Head(rows).lat, lon |-> Head(rows).lon, sequence |-> Head(rows).sequence]>>
          ELSE <<>>) \o ShapeRows(Tail(rows), shape_id)

\* _load_shapes().get(shape_id): None for a shape id without a row
load_shapes(shape_id) ==
    LET pts == SortBySequence(ShapeRows(shapes_txt, shape_id))
    IN  IF pts = <<>> THEN None ELSE Some(pts)

\* shape_stops.get(sid, [])
ShapeStopsOf(sid) ==
    IF sid \in DOMAIN load_shape_stops THEN load_shape_stops[sid] ELSE <<>>

\* subway_shapes.py 96-107: all_shapes[route_id][direction]
ShapesOf(rows, route_id, direction) ==
    {rows[k].shape_id :
        k \in {r \in DOMAIN rows : rows[r].route_id = route_id /\ rows[r].direction_id = direction}}

\* a variant of LongestShapes that takes whatever candidate comes first
AnyShape(shape_ids) == shape_ids

\* subway_shapes.py 116-119: max(shape_ids, key=number of stops).  max
\* returns the first of the largest in the iteration order of the set,
\* which the language does not fix: any of the largest may be returned.
LongestShapes(shape_ids) ==
    {sid \in shape_ids :
        \A other \in shape_ids : Len(ShapeStopsOf(other)) <= Len(ShapeStopsOf(sid))}

\* the (route, direction) pairs of the rows
RouteKeys(rows) == {<<rows[k].route_id, rows[k].direction_id>> : k \in DOMAIN rows}

\* subway_shapes.py 83-122: the mappings _load_route_shapes may return, as
\* functions from (route, direction) to the shape id picked
load_route_shapes(rows) ==
    {picked \in [RouteKeys(rows) -> ShapeIds] :
        \A key \in RouteKeys(rows) :
            picked[key] \in LongestShapes(ShapesOf(rows, key[1], key[2]))}

\* subway_shapes.py 145-162: the loop over enumerate(stop_ids), from the
\* 1-based position seq on, with the names seen so far
RECURSIVE StopsLoop(_, _, _)
StopsLoop(stop_ids, seq, seen_names) ==
    IF seq > Len(stop_ids) THEN <<>>
    ELSE LET info == get_stop_info(stop_ids[seq])
         IN  IF info = None THEN StopsLoop(stop_ids, seq + 1, seen_names)
             ELSE IF info[1].name \in seen_names THEN StopsLoop(stop_ids, seq + 1, seen_names)
             ELSE <<[stop_id  |-> stop_ids[seq],
                     name     |-> info[1].name,
                     sequence |-> seq - 1]>>
                  \o StopsLoop(stop_ids, seq + 1, seen_names \cup {info[1].name})

\* subway_shapes.py 138-164
get_stops_for_shape(shape_id) == StopsLoop(ShapeStopsOf(shape_id), 1, {})

\* the direction ids a mapping holds for a route
DirectionsOf(picked, route_id) == {key[2] : key \in {k \in DOMAIN picked : k[1] = route_id}}

\* sorted(direction_shapes.items()): ascending direction id
RECURSIVE SortedDirections(_)
SortedDirections(directions) ==
    IF directions = {} THEN <<>>
    ELSE LET least == CHOOSE d \in directions : \A e \in directions : d <= e
         IN  <<least>> \o SortedDirections(directions \ {least})

\* [(p.lat, p.lon) for p in shape_points]
Coordinates(shape_points) ==
    [k \in DOMAIN shape_points |-> [lat |-> shape_points[k].lat, lon |-> shape_points[k].lon]]

\* a variant of ShapeLoop in which every direction adds its stops
RECURSIVE ShapeLoopEveryDirection(_, _, _, _, _)
ShapeLoopEveryDirection(picked, route_id, directions, polylines, all_stops) ==
    IF directions = <<>> THEN [polylines |-> polylines, stops |-> all_stops]
    ELSE LET shape_id == picked[<<route_id, Head(directions)>>]
             shape_points == load_shapes(shape_id)
         IN  ShapeLoopEveryDirection(picked, route_id, Tail(directions),
                 IF shape_points # None
                 THEN Append(polylines, Coordinates(shape_points[1])) ELSE polylines,
                 all_stops \o get_stops_for_shape(shape_id))

\* subway_shapes.py 191-198: the loop over the directions of the route
RECURSIVE ShapeLoop(_, _, _, _, _)
ShapeLoop(picked, route_id, directions, polylines, all_stops) ==
    IF directions = <<>> THEN [polylines |-> polylines, stops |-> all_stops]
    ELSE LET shape_id == picked[<<route_id, Head(directions)>>]
             shape_points == load_shapes(shape_id)
         IN  ShapeLoop(picked, route_id, Tail(directions),
                 IF shape_points # None
                 THEN Append(polylines, Coordinates(shape_points[1])) ELSE polylines,
                 IF all_stops = <<>> THEN get_stops_for_shape(shape_id) ELSE all_stops)

\* a variant of RouteShapeOf that returns a result without polylines
RouteShapeOrEmpty(looped) == Some(looped)

\* subway_shapes.py 200-203: None when the loop found no polyline
RouteShapeOf(looped) == IF looped.polylines = <<>> THEN None ELSE Some(looped)

\* subway_shapes.py 171-203, on the mapping _load_route_shapes returned
get_subway_route_shape(route_id, picked) ==
    IF DirectionsOf(picked, route_id) = {} THEN None
    ELSE RouteShapeOf(ShapeLoop(picked, route_id,
                                SortedDirections(DirectionsOf(picked, route_id)), <<>>, <<>>))

\* subway_shapes.py 231-233: the child id without its trailing N or S
ParentId(stop_id) ==
    IF Len(stop_id) > 1 /\ stop_id[Len(stop_id)] \in {78, 83} THEN DropLast(stop_id)
    ELSE stop_id

\* subway_shapes.py 235-245: one stop of one route enters the stations dict
AddStation(stations, stop, route_id) ==
    LET parent_id == ParentId(stop.stop_id)
    IN  IF \E k \in DOMAIN stations : stations[k].id = parent_id
        THEN [k \in DOMAIN stations |->
                 IF stations[k].id = parent_id
                 THEN [stations[k] EXCEPT !.routes = @ \cup {route_id}]
                 ELSE stations[k]]
        ELSE Append(stations, [id |-> parent_id, name |-> stop.name, routes |-> {route_id}])

\* subway_shapes.py 227-245: the loop over the stops of a shape
RECURSIVE StationsOfStops(_, _, _)
StationsOfStops(stations, stop_list, route_id) ==
    IF stop_list = <<>> THEN stations
    ELSE StationsOfStops(AddStation(stations, Head(stop_list), route_id), Tail(stop_list), route_id)

\* subway_shapes.py 220-245: the loop over directions.values()
RECURSIVE StationsOfShapes(_, _, _, _)
StationsOfShapes(stations, shape_ids, visited_shapes, route_id) ==
    IF shape_ids = <<>> THEN stations
    ELSE IF Head(shape_ids) \in visited_shapes
         THEN StationsOfShapes(stations, Tail(shape_ids), visited_shapes, route_id)
    ELSE StationsOfShapes(
             StationsOfStops(stations, get_stops_for_shape(Head(shape_ids)), route_id),
             Tail(shape_ids), visited_shapes \cup {Head(shape_ids)}, route_id)

\* the routes of the rows, and the directions of a route, in the order the
\* dicts of _load_route_shapes got their keys: first appearance in the file
RouteOrder(rows) == Distinct([k \in DOMAIN rows |-> rows[k].route_id])

RECURSIVE RowsOfRoute(_, _)
RowsOfRoute(rows, route_id) ==
    IF rows = <<>> THEN <<>>
    ELSE (IF Head(rows).route_id = route_id THEN <<Head(rows)>> ELSE <<>>)
         \o RowsOfRoute(Tail(rows), route_id)

DirectionOrder(rows, route_id) ==
    LET own == RowsOfRoute(rows, route_id)
    IN  Distinct([k \in DOMAIN own |-> own[k].direction_id])

\* subway_shapes.py 217-245: the loop over route_shapes.items()
RECURSIVE StationsOfRoutes(_, _, _, _)
StationsOfRoutes(stations, routes, rows, picked) ==
    IF routes = <<>> THEN stations
    ELSE LET directions == DirectionOrder(rows, Head(routes))
             shape_ids == [k \in DOMAIN directions |-> picked[<<Head(routes), directions[k]>>]]
         IN  StationsOfRoutes(StationsOfShapes(stations, shape_ids, {}, Head(routes)),
                              Tail(routes), rows, picked)

\* sorted(list(s["routes"])): strings in ascending code-point order
RECURSIVE SortedStrings(_)
SortedStrings(strings) ==
    IF strings = {} THEN <<>>
    ELSE LET least == CHOOSE a \in strings : \A b \in strings : a = b \/ StrLess(a, b)
         IN  <<least>> \o SortedStrings(strings \ {least})

\* subway_shapes.py 206-254, on the mapping _load_route_shapes returned
get_all_subway_stations(rows, picked) ==
    LET stations == StationsOfRoutes(<<>>, RouteOrder(rows), rows, picked)
    IN  [k \in DOMAIN stations |->
            [id     |-> stations[k].id,
             name   |-> stations[k].name,
             routes |-> SortedStrings(stations[k].routes)]]

(***************************************************************************)
(* Polyline encoding (routers/subway.py)                                   *)
(***************************************************************************)
\* round(lat * 1e5) of a coordinate given in millionths of a degree: the
\* nearest multiple, the even one of two equally near
round_e5(micro) ==
    LET q == micro \div 10
        r == micro % 10
    IN  IF r < 5 THEN q
        ELSE IF r > 5 THEN q + 1
        ELSE IF q % 2 = 0 THEN q ELSE q + 1

\* subway.py 178: ~(value << 1) if value < 0 else (value << 1)
ShiftSigned(value) == IF value < 0 THEN -(2 * value) - 1 ELSE 2 * value

\* a variant of ChunkChars whose chunks all lack the continuation bit
RECURSIVE ChunkCharsUnmarked(_)
ChunkCharsUnmarked(v) ==
    IF v >= 32 THEN <<(v % 32) + 63>> \o ChunkCharsUnmarked(v \div 32)
    ELSE <<v + 63>>

\* subway.py 179-182: chr(((v & 0x1F) | 0x20) + 63) while v >= 0x20, v >>= 5,
\* then chr(v + 63); characters as code points
RECURSIVE ChunkChars(_)
ChunkChars(v) ==
    IF v >= 32 THEN <<((v % 32) + 32) + 63>> \o ChunkChars(v \div 32)
    ELSE <<v + 63>>

\* subway.py 176-182
encode_value(value) == ChunkChars(ShiftSigned(value))

\* subway.py 165-171: the loop over coords, from the previous point on
RECURSIVE EncodeFrom(_, _, _)
EncodeFrom(points, prev_lat, prev_lon) ==
    IF points = <<>> THEN <<>>
    ELSE LET lat_e5 == round_e5(Head(points).lat)
             lon_e5 == round_e5(Head(points).lon)
         IN  encode_value(lat_e5 - prev_lat) \o encode_value(lon_e5 - prev_lon)
             \o EncodeFrom(Tail(points), lat_e5, lon_e5)

\* subway.py 159-173
encode_polyline(points) == EncodeFrom(points, 0, 0)

(***************************************************************************)
(* /subway/shape/{route_id} and /subway/stations/all (routers/subway.py)   *)
(***************************************************************************)
\* most rows in trips.txt
MaxTrips == 3

\* most points in a coordinate list handed to the polyline encoder
MaxPoints == 2

\* the rows trips.txt may hold: route A in both directions and route C in
\* direction 0, with any shape
TripRows ==
    {[route_id |-> <<65>>, direction_id |-> d, shape_id |-> sid] : d \in {0, 1}, sid \in ShapeIds}
    \cup {[route_id |-> <<67>>, direction_id |-> 0, shape_id |-> sid] : sid \in ShapeIds}

\* trips.txt, as the loader will read it, gets one more row
TripsAddsRow(row) ==
    /\ pc = "idle"
    /\ Len(trips_txt) < MaxTrips
    /\ trips_txt' = Append(trips_txt, row)
    /\ UNCHANGED <<handler, pc, nsVars, subwayVars, busVars, response, directVars,
                   route_shapes_cache, polyline_input, polyline_output,
                   requestVars, groupVars, tableVars>>

\* subway.py 96-141, with the mapping the first call of _load_route_shapes
\* returns
InvokeSubwayShape(route_id, picked) ==
    /\ pc = "idle"
    /\ handler' = "subway_shape"
    /\ pc' = "done"
    /\ route_shapes_cache' = Some(picked)
    /\ LET upper == Upper(route_id)
           shape == get_subway_route_shape(upper, picked)
       IN  /\ result' = Some(Return(shape))
           /\ response' =
                  Some(IF shape = None
                       THEN [endpoint |-> "subway_shape", status |-> 404,
                             body |-> [detail   |-> "No shape data for subway line",
                                       route_id |-> route_id]]
                       ELSE [endpoint |-> "subway_shape", status |-> 200,
                             body |-> [route_id  |-> upper,
                                       polylines |-> [k \in DOMAIN shape[1].polylines |->
                                                         encode_polyline(shape[1].polylines[k])],
                                       stops     |-> [k \in DOMAIN shape[1].stops |->
                                                         [id   |-> shape[1].stops[k].stop_id,
                                                          name |-> shape[1].stops[k].name]]]])
    /\ UNCHANGED <<nsVars, subwayVars, busVars, replies, upstream_feed, trips_txt,
                   polyline_input, polyline_output, requestVars, groupVars, tableVars>>

\* subway.py 81-93
InvokeStationsAll(picked) ==
    /\ pc = "idle"
    /\ handler' = "subway_stations_all"
    /\ pc' = "done"
    /\ route_shapes_cache' = Some(picked)
    /\ LET raw_stations == get_all_subway_stations(trips_txt, picked)
       IN  /\ result' = Some(Return(raw_stations))
           /\ response' = Some([endpoint |-> "subway_stations_all", status |-> 200,
                                body |-> raw_stations])
    /\ UNCHANGED <<nsVars, subwayVars, busVars, replies, upstream_feed, trips_txt,
                   polyline_input, polyline_output, requestVars, groupVars, tableVars>>

\* the route ids /subway/shape/{route_id} is called with: a, C and X
ShapeRouteIds == {<<97>>, <<67>>, <<88>>}

NextShapes ==
    \/ \E row \in TripRows : TripsAddsRow(row)
    \/ /\ pc = "idle"
       /\ \E route_id \in ShapeRouteIds : \E picked \in load_route_shapes(trips_txt) :
              InvokeSubwayShape(route_id, picked)
    \/ /\ pc = "idle"
       /\ \E picked \in load_route_shapes(trips_txt) : InvokeStationsAll(picked)

SpecShapes == Init /\ [][NextShapes]_vars

\* the coordinates, in millionths of a degree, of the points handed to the
\* encoder: around zero, around the chunk boundary of 16 units of 1e-5
\* degree, and New York's latitude and longitude
CoordinateValues == {0, -4, 14, 159, -161, 40730614, -73990003}

\* a caller's coordinate list gets one more point
PolylineAddsPoint(point) ==
    /\ polyline_output = None
    /\ Len(polyline_input) < MaxPoints
    /\ polyline_input' = Append(polyline_input, point)
    /\ UNCHANGED <<handler, pc, nsVars, subwayVars, busVars, response, directVars,
                   trips_txt, route_shapes_cache, polyline_output,
                   requestVars, groupVars, tableVars>>

\* subway.py 159-173: _encode_polyline is called on the list
EncodePolyline ==
    /\ polyline_output = None
    /\ polyline_output' = Some(encode_polyline(polyline_input))
    /\ UNCHANGED <<handler, pc, nsVars, subwayVars, busVars, response, directVars,
                   trips_txt, route_shapes_cache, polyline_input,
                   requestVars, groupVars, tableVars>>

NextPolyline ==
    \/ \E lat \in CoordinateValues : \E lon \in CoordinateValues :
           PolylineAddsPoint([lat |-> lat, lon |-> lon])
    \/ EncodePolyline

SpecPolyline == Init /\ [][NextPolyline]_vars

(***************************************************************************)
(* The merge of one feed and the grouping, on lists built entry by entry   *)
(***************************************************************************)
\* the longest list of arrivals a feed decodes to
MaxArrivals == 6

\* the longest flat list handed to _group_arrivals
MaxFlat == 4

\* the arrivals a feed decodes to: due now, 1 minute and 2 minutes away
ArrivalSamples ==
    {TrackArrival(<<65>>, <<65, 49, 78>>, strN, None, 0, strOnTime),
     TrackArrival(<<67>>, <<67, 51>>, strS, None, 1, strOnTime),
     TrackArrival(<<65>>, <<65, 49, 78>>, strN, None, 2, strOnTime)}

\* a NearbyTransitArrival (models.py 75-85)
Entry(route_id, direction, minutes_away, mode) ==
    [route_id     |-> route_id,
     stop_name    |-> <<83, 49>>,
     direction    |-> direction,
     minutes_away |-> minutes_away,
     status       |-> strOnTime,
     mode         |-> mode,
     stop_lat     |-> None,
     stop_lon     |-> None]

\* the entries of a flat list: buses of the routes "MTA NYCT_B63", "B41" and
\* "A", trains of the lines "A", "q" and "X"
EntrySamples ==
    {Entry(strAgencyPrefix \o <<66, 54, 51>>, <<110, 101, 97, 114>>, 0, "bus"),
     Entry(<<66, 52, 49>>, <<110, 101, 97, 114>>, 2, "bus"),
     Entry(<<65>>, <<110, 101, 97, 114>>, 1, "bus"),
     Entry(<<65>>, strS, 1, "subway"),
     Entry(<<113>>, strN, 1, "subway"),
     Entry(<<88>>, strN, 2, "subway")}

\* data_cleaner.py 79-82: the feed decodes to one more arrival; the list
\* get_arrivals_for_line returns is sorted
FeedDecodes(arrival) ==
    /\ entries_output = None
    /\ flat_input = <<>> /\ groups_output = None
    /\ Len(arrivals_input) < MaxArrivals
    /\ arrivals_input' = SortByMinutes(Append(arrivals_input, arrival))
    /\ UNCHANGED <<handler, pc, nsVars, subwayVars, busVars, response, directVars, shapeVars,
                   requestVars, entries_output, flat_input, groups_output, tableVars>>

\* nearby.py 198-218: the loop of _fetch_nearby_subway takes the list of
\* one line
FeedContributes(line) ==
    /\ entries_output = None
    /\ flat_input = <<>> /\ groups_output = None
    /\ entries_output' = Some([line    |-> line,
                               entries |-> FeedContribution(line, Return(arrivals_input))])
    /\ UNCHANGED <<handler, pc, nsVars, subwayVars, busVars, response, directVars, shapeVars,
                   requestVars, arrivals_input, flat_input, groups_output, tableVars>>

\* nearby.py 98, 103: the flat list gets one more entry
FlatAdds(entry) ==
    /\ arrivals_input = <<>> /\ entries_output = None
    /\ groups_output = None
    /\ Len(flat_input) < MaxFlat
    /\ flat_input' = Append(flat_input, entry)
    /\ UNCHANGED <<handler, pc, nsVars, subwayVars, busVars, response, directVars, shapeVars,
                   requestVars, arrivals_input, entries_output, groups_output, tableVars>>

\* nearby.py 122-165: _group_arrivals is called on the list
GroupArrivalsOfFlat ==
    /\ arrivals_input = <<>> /\ entries_output = None
    /\ groups_output = None
    /\ groups_output' = Some(group_arrivals(flat_input))
    /\ UNCHANGED <<handler, pc, nsVars, subwayVars, busVars, response, directVars, shapeVars,
                   requestVars, arrivals_input, entries_output, flat_input, tableVars>>

NextGroup ==
    \/ \E arrival \in ArrivalSamples : FeedDecodes(arrival)
    \/ \E line \in {feed_lines[1], feed_lines[2]} : FeedContributes(line)
    \/ \E entry \in EntrySamples : FlatAdds(entry)
    \/ GroupArrivalsOfFlat

SpecGroup == Init /\ [][NextGroup]_vars

(***************************************************************************)
(* The cached reference tables (station_lookup.py, subway_shapes.py), over *)
(* a run of service calls between which the data files may grow            *)
(***************************************************************************)
\* most rows added to stops.txt after those of the sample table
MaxStopRows == 1

\* the stop_lat column of the sample stops.txt, as metres of arc north of
\* the position the radius queries are made from.  The sample stops and
\* that position share one meridian, where _haversine_m is R * |dphi|, the
\* length of the arc between the two latitudes.
StopNorth(stop_id) ==
    IF stop_id[1] = 65 THEN 50 ELSE IF stop_id[1] = 66 THEN 250 ELSE 600

\* the rows stops.txt may get: "D4" ("Dock"), 300 m north, on no shape
StopRows == {[stop_id |-> <<68, 52>>, name |-> <<68, 111, 99, 107>>, north |-> 300]}

\* the rows trips.txt gets in this run: route A in direction 0 with shape S4
\* (no stops) or S1 (four stops)
TableTripRows ==
    {[route_id |-> <<65>>, direction_id |-> 0, shape_id |-> "S4"],
     [route_id |-> <<65>>, direction_id |-> 0, shape_id |-> "S1"]}

\* the last row of the rows with this stop id: stops[stop_id] = StopInfo(...)
\* overwrites
LastRowOf(rows, stop_id) ==
    rows[CHOOSE k \in DOMAIN rows :
             /\ rows[k].stop_id = stop_id
             /\ \A later \in DOMAIN rows : rows[later].stop_id = stop_id => later <= k]

\* station_lookup.py 27-52: the dict _load_stops builds from the sample table
\* followed by the rows
StopsTable(rows) ==
    [id \in DOMAIN load_stops \cup {rows[k].stop_id : k \in DOMAIN rows} |->
        IF \E k \in DOMAIN rows : rows[k].stop_id = id
        THEN LastRowOf(rows, id)
        ELSE [stop_id |-> id, name |-> load_stops[id].name, north |-> StopNorth(id)]]

\* what the body of a loader returns from the files as they are now; for
\* _load_route_shapes the rows give the order of the keys and picked the
\* shape of each
Loaded(table, picked) ==
    CASE table = "stops"        -> StopsTable(stops_txt)
      [] table = "shapes"       -> [sid \in ShapeIds |-> load_shapes(sid)]
      [] table = "shape_stops"  -> load_shape_stops
      [] table = "route_shapes" -> [rows |-> trips_txt, picked |-> picked]

\* a wrapper that holds nothing from one call to the next
uncached(table) == FALSE

\* functools.lru_cache(maxsize=1) around a function without arguments: a
\* call is a hit, and the body does not run, once a result is held
lru_cache(table) == caches[table] # None

\* what a call of the loader returns
CallLoader(table, picked) ==
    IF lru_cache(table) THEN caches[table][1] ELSE Loaded(table, picked)

\* the (route, direction) pairs of a route in the mapping
PickedShapes(picked, route_id) ==
    {picked[key] : key \in {k \in DOMAIN picked : k[1] = route_id}}

\* the loaders get_subway_route_shape calls: _load_route_shapes, which calls
\* _load_shape_stops when its body runs; for a route with shapes _load_shapes
\* and, in _get_stops_for_shape, _load_shape_stops; _load_stops as soon as a
\* shape has stops to resolve
RouteShapeLoaders(route_shapes, route_id) ==
    {"route_shapes"}
    \cup (IF lru_cache("route_shapes") THEN {} ELSE {"shape_stops"})
    \cup (IF PickedShapes(route_shapes.picked, route_id) = {} THEN {}
          ELSE {"shapes", "shape_stops"})
    \cup (IF \E sid \in PickedShapes(route_shapes.picked, route_id) : ShapeStopsOf(sid) # <<>>
          THEN {"stops"} ELSE {})

\* the loaders get_all_subway_stations calls
AllStationsLoaders(route_shapes) ==
    {"route_shapes"}
    \cup (IF lru_cache("route_shapes") THEN {} ELSE {"shape_stops"})
    \cup (IF DOMAIN route_shapes.picked = {} THEN {} ELSE {"shape_stops"})
    \cup (IF \E key \in DOMAIN route_shapes.picked : ShapeStopsOf(route_shapes.picked[key]) # <<>>
          THEN {"stops"} ELSE {})

\* the file a held table was loaded from has grown since
Outdated(table) ==
    /\ lru_cache(table)
    /\ \/ table = "stops" /\ caches[table][1] # StopsTable(stops_txt)
       \/ table = "route_shapes" /\ caches[table][1].rows # trips_txt

\* one service call: the loaders it calls, through their caches, and the
\* answer it returns
ServiceCall(query, loaders, picked, answer) ==
    /\ pc = "idle"
    /\ caches' = [table \in StaticTables |->
                     IF table \in loaders THEN Some(CallLoader(table, picked))
                     ELSE caches[table]]
    /\ loader_runs' = [table \in StaticTables |->
                          IF table \in loaders /\ ~lru_cache(table)
                          THEN loader_runs[table] + 1 ELSE loader_runs[table]]
    /\ route_shapes_cache' =
           IF "route_shapes" \in loaders
           THEN Some(CallLoader("route_shapes", picked).picked) ELSE route_shapes_cache
    /\ answered' = Some([query    |-> query,
                         answer   |-> answer,
                         outdated |-> \E table \in loaders : Outdated(table)])
    /\ remembered' \in {remembered, answered}
    /\ UNCHANGED <<handler, pc, nsVars, subwayVars, busVars, response, directVars,
                   trips_txt, polyline_input, polyline_output, requestVars, groupVars,
                   stops_txt>>

\* station_lookup.py 55-57: lookup
GetStopInfo(stop_id) ==
    LET table == CallLoader("stops", <<>>)
    IN  ServiceCall([op |-> "lookup", arg |-> stop_id], {"stops"}, <<>>,
                    IF stop_id \in DOMAIN table THEN Some(table[stop_id]) ELSE None)

\* station_lookup.py 60-63: name_of
GetStopName(stop_id) ==
    LET table == CallLoader("stops", <<>>)
    IN  ServiceCall([op |-> "name_of", arg |-> stop_id], {"stops"}, <<>>,
                    IF stop_id \in DOMAIN table THEN table[stop_id].name ELSE stop_id)

\* station_lookup.py 84-94: within_radius, from the position at 0 m
GetNearbyStopIds(radius_m) ==
    LET table == CallLoader("stops", <<>>)
    IN  ServiceCall([op |-> "within_radius", arg |-> radius_m], {"stops"}, <<>>,
                    {id \in DOMAIN table :
                        (IF table[id].north < 0 THEN -table[id].north ELSE table[id].north)
                            <= radius_m})

\* subway_shapes.py 171-203: route_shape
GetSubwayRouteShape(route_id, picked) ==
    LET route_shapes == CallLoader("route_shapes", picked)
    IN  ServiceCall([op |-> "route_shape", arg |-> route_id],
                    RouteShapeLoaders(route_shapes, route_id), picked,
                    get_subway_route_shape(route_id, route_shapes.picked))

\* subway_shapes.py 206-254: all_stations
GetAllSubwayStations(picked) ==
    LET route_shapes == CallLoader("route_shapes", picked)
    IN  ServiceCall([op |-> "all_stations", arg |-> <<>>],
                    AllStationsLoaders(route_shapes), picked,
                    get_all_subway_stations(route_shapes.rows, route_shapes.picked))

\* stops.txt, as the loader will read it, gets one more row
StopsAddsRow(row) ==
    /\ pc = "idle"
    /\ Len(stops_txt) < MaxStopRows
    /\ stops_txt' = Append(stops_txt, row)
    /\ UNCHANGED <<handler, pc, nsVars, subwayVars, busVars, response, directVars,
                   shapeVars, requestVars, groupVars,
                   caches, loader_runs, remembered, answered>>

\* the stop id looked up: D4
LookupIds == {<<68, 52>>}

\* the radius, in metres, of the radius queries
LookupRadii == {400}

NextTables ==
    \/ \E row \in TableTripRows : TripsAddsRow(row)
    \/ \E row \in StopRows : StopsAddsRow(row)
    \/ \E stop_id \in LookupIds : GetStopInfo(stop_id)
    \/ \E stop_id \in LookupIds : GetStopName(stop_id)
    \/ \E radius_m \in LookupRadii : GetNearbyStopIds(radius_m)
    \/ \E route_id \in {<<65>>} : \E picked \in load_route_shapes(trips_txt) :
           GetSubwayRouteShape(route_id, picked)
    \/ \E picked \in load_route_shapes(trips_txt) : GetAllSubwayStations(picked)

SpecTables == Init /\ [][NextTables]_vars

(***************************************************************************)
(* Properties                                                              *)
(***************************************************************************)
Range(s) == {s[k] : k \in DOMAIN s}

Count(s, v) == Cardinality({k \in DOMAIN s : s[k] = v})

\* every item occurs in b at least as often as in a
SubBag(a, b) == \A v \in Range(a) : Count(a, v) <= Count(b, v)

SameItems(a, b) == Len(a) = Len(b) /\ SubBag(a, b)

Ascending(s) == \A k \in 1..(Len(s) - 1) : s[k].minutes_away <= s[k + 1].minutes_away

\* no item of all that is missing from kept is sooner than an item of kept
NoSoonerOmitted(kept, all) ==
    \A v \in Range(all) :
        Count(all, v) > Count(kept, v) =>
            \A k \in DOMAIN kept : kept[k].minutes_away <= v.minutes_away

NearbyAnswered == response # None /\ response[1].endpoint = "nearby"

GroupedAnswered == response # None /\ response[1].endpoint = "nearby_grouped"

\* C1 as stated: when the subway branch raises and the bus branch returns N
\* items, nearby returns exactly those N items sorted by minutes-away; when
\* both branches raise, nearby answers with an empty list and no error.
C1_AsStated ==
    NearbyAnswered =>
        /\ (subway_results[1].raised /\ ~bus_results[1].raised) =>
               /\ SameItems(response[1].body, bus_results[1].value)
               /\ Ascending(response[1].body)
        /\ (subway_results[1].raised /\ bus_results[1].raised) =>
               /\ response[1].status = 200
               /\ response[1].body = <<>>

\* C1: when the subway branch raises and the bus branch returns N items,
\* nearby returns min(N, 20) of those items in ascending minutes-away order,
\* none of the omitted items being sooner than a returned one; when both
\* branches raise, nearby answers 200 with an empty list.
C1_AggregationFaultTolerance ==
    NearbyAnswered =>
        /\ (subway_results[1].raised /\ ~bus_results[1].raised) =>
               /\ response[1].status = 200
               /\ Len(response[1].body) = Min(Len(bus_results[1].value), 20)
               /\ SubBag(response[1].body, bus_results[1].value)
               /\ Ascending(response[1].body)
               /\ NoSoonerOmitted(response[1].body, bus_results[1].value)
        /\ (subway_results[1].raised /\ bus_results[1].raised) =>
               /\ response[1].status = 200
               /\ response[1].body = <<>>

\* the subway branch raised and the bus branch returned more than 20 items
C1_Witness ==
    /\ NearbyAnswered
    /\ subway_results[1].raised
    /\ ~bus_results[1].raised
    /\ Len(bus_results[1].value) > 20
    /\ Len(response[1].body) = 20

\* C2: for n collected arrivals nearby returns exactly min(n, 20) of them, in
\* ascending minutes-away order, and no omitted arrival is sooner than a
\* returned one.
C2_ResultCap ==
    NearbyAnswered =>
        LET collected == collect_all(subway_results[1], bus_results[1])
            body == response[1].body
        IN  /\ Len(body) = Min(Len(collected), 20)
            /\ SubBag(body, collected)
            /\ Ascending(body)
            /\ NoSoonerOmitted(body, collected)

\* both branches contributed, more than 20 arrivals were collected, and the
\* 20 that were returned are not all equally soon
C2_Witness ==
    /\ NearbyAnswered
    /\ ~subway_results[1].raised /\ subway_results[1].value # <<>>
    /\ ~bus_results[1].raised /\ bus_results[1].value # <<>>
    /\ Len(collect_all(subway_results[1], bus_results[1])) > 20
    /\ Len(response[1].body) = 20
    /\ response[1].body[1].minutes_away < response[1].body[20].minutes_away

\* the arrivals of a group, over all of its directions
RECURSIVE GroupArrivals(_)
GroupArrivals(directions) ==
    IF directions = <<>> THEN <<>>
    ELSE Head(directions).arrivals \o GroupArrivals(Tail(directions))

\* the least minutes-away among the arrivals of a group
GroupMinimum(group) ==
    LET all == GroupArrivals(group.directions)
    IN  CHOOSE m \in {all[k].minutes_away : k \in DOMAIN all} :
            \A k \in DOMAIN all : m <= all[k].minutes_away

\* C3: in the answer of nearby_grouped the arrivals of every direction are in
\* ascending minutes-away order, the directions of every group are in
\* lexicographic order of their direction string, and the groups are in
\* ascending order of the least minutes-away among all arrivals of the group.
C3_GroupingOrder ==
    GroupedAnswered =>
        LET groups == response[1].body
        IN  /\ \A g \in DOMAIN groups :
                   LET dirs == groups[g].directions
                   IN  /\ \A d \in DOMAIN dirs : Ascending(dirs[d].arrivals)
                       /\ \A d \in 1..(Len(dirs) - 1) :
                              StrLess(dirs[d].direction, dirs[d + 1].direction)
            /\ \A g \in 1..(Len(groups) - 1) :
                   GroupMinimum(groups[g]) <= GroupMinimum(groups[g + 1])

\* a grouped answer with several groups of different soonest arrival, a group
\* of two directions, and a direction whose arrivals differ in minutes-away
C3_Witness ==
    /\ GroupedAnswered
    /\ LET groups == response[1].body
       IN  /\ Len(groups) >= 3
           /\ GroupMinimum(groups[1]) < GroupMinimum(groups[Len(groups)])
           /\ \E g \in DOMAIN groups : Len(groups[g].directions) >= 2
           /\ \E g \in DOMAIN groups : \E d \in DOMAIN groups[g].directions :
                  LET arrivals == groups[g].directions[d].arrivals
                  IN  /\ Len(arrivals) >= 2
                      /\ arrivals[1].minutes_away < arrivals[Len(arrivals)].minutes_away

RECURSIVE Concat(_)
Concat(parts) == IF parts = <<>> THEN <<>> ELSE Head(parts) \o Concat(Tail(parts))

Failed(results) == {i \in DOMAIN results : results[i] # None /\ results[i][1].raised}

Succeeded(results) == {i \in DOMAIN results : results[i] # None /\ ~results[i][1].raised}

\* what the feeds that answered add to the subway branch, in feed order
SucceededFeeds ==
    Concat([i \in DOMAIN feed_results |->
               IF i \in Succeeded(feed_results)
               THEN SubwayEntries(feed_lines[i], Take(feed_results[i][1].value, 5))
               ELSE <<>>])

\* what the stops that answered add to the bus branch, in stop order
SucceededStops ==
    Concat([j \in DOMAIN stop_results |->
               IF j \in Succeeded(stop_results)
               THEN BusEntries(stops[j], stop_results[j][1].value)
               ELSE <<>>])

\* C4: in the subway fan-out over the 7 feeds and in the bus fan-out over the
\* stops, whatever subset of the fetches has failed, the branch ends only
\* when every fetch has completed, its output is exactly the contribution of
\* the fetches that succeeded, and the request is answered with 200.
C4_FetchIsolation ==
    /\ Len(feed_lines) = 7
    /\ (subway_pc = "done" /\ ~subway_results[1].raised) =>
           /\ Gathered(feed_results)
           /\ subway_results[1].value = SucceededFeeds
    /\ (bus_pc = "done" /\ ~bus_results[1].raised) =>
           /\ Gathered(stop_results)
           /\ bus_results[1].value = SucceededStops
    /\ (handler = "nearby" /\ response # None) => response[1].status = 200

\* a request answered although feeds and stops failed, with what the other
\* feeds and stops contributed
C4_Witness ==
    /\ handler = "nearby" /\ response # None
    /\ Failed(feed_results) # {} /\ Succeeded(feed_results) # {}
    /\ Failed(stop_results) # {} /\ Succeeded(stop_results) # {}
    /\ \E i \in Failed(feed_results) : \E k \in Succeeded(feed_results) : i < k
    /\ subway_results[1].value # <<>>
    /\ bus_results[1].value # <<>>

\* the stop-time updates of a feed that the decoder turns into arrivals
\* zero minutes away: arrival time set, less than a minute ahead
DueNow(feed) ==
    {stu \in UNION {Range(feed[k].stop_time_update) :
                       k \in {e \in DOMAIN feed : feed[e].has_trip_update}} :
        stu.has_arrival /\ stu.time # 0 /\ stu.time < Now + 60}

SubwayMode(entries) == {entries[k] : k \in {e \in DOMAIN entries : entries[e].mode = "subway"}}

\* C7: no subway entry of the subway branch, of the nearby answer or of the
\* grouped answer is less than 1 minute away, while get_arrivals_for_line
\* itself returns the arrivals that are 0 minutes away.
C7_StaleFiltering ==
    /\ (subway_results # None /\ ~subway_results[1].raised) =>
           \A e \in Range(subway_results[1].value) : e.minutes_away >= 1
    /\ NearbyAnswered =>
           \A e \in SubwayMode(response[1].body) : e.minutes_away >= 1
    /\ GroupedAnswered =>
           \A g \in SubwayMode(response[1].body) :
               \A e \in Range(GroupArrivals(g.directions)) : e.minutes_away >= 1
    /\ \A i \in Succeeded(feed_results) :
           \A stu \in DueNow(FeedBody(i)) :
               \E a \in Range(feed_results[i][1].value) :
                   a.station = stu.stop_id /\ a.minutes_away = 0

\* a feed whose first five arrivals hold one that is 0 minutes away and one
\* that is later, gathered into a subway branch that is not empty
C7_Witness ==
    /\ subway_results # None /\ ~subway_results[1].raised
    /\ subway_results[1].value # <<>>
    /\ \E i \in Succeeded(feed_results) :
           LET arrivals == Take(feed_results[i][1].value, 5)
           IN  /\ DueNow(FeedBody(i)) # {}
               /\ \E a \in Range(arrivals) : a.minutes_away = 0
               /\ \E a \in Range(arrivals) : a.minutes_away >= 1

\* the upstream answered with an HTTP-status error or not in time
Retryable(reply) == reply.kind = "timeout" \/ (reply.kind = "http" /\ reply.code >= 400)

\* the upstream answered 2xx with a payload that parses
Succeeds(reply) == reply.kind = "http" /\ reply.code < 400 /\ reply.wellformed

\* the upstream rejected the credentials
AuthRejected(reply) == reply.kind = "http" /\ reply.code \in {401, 403}

\* C5: with the retry budget R = http_max_retries, get_nearby_stops makes at
\* most R + 1 upstream attempts and sleeps only between two attempts; when
\* the attempts before the last failed with an HTTP-status or timeout error
\* and the last one succeeds, it returns the stops of that attempt; when all
\* R + 1 attempts fail so, it raises the error of the last attempt.
C5_DiscoveryRetry ==
    handler = "bus_nearby" =>
        /\ requests <= http_max_retries + 1
        /\ ns_pc = "sleeping" =>
               /\ sleeps = requests
               /\ requests <= http_max_retries
        /\ ns_pc \in {"awaiting", "returned"} => sleeps = requests - 1
        /\ ns_pc = "returned" =>
               LET last == replies[Len(replies)]
               IN  /\ Len(replies) = requests
                   /\ \A k \in 1..(Len(replies) - 1) : Retryable(replies[k])
                   /\ Succeeds(last) => ns_result = Some(Return(ParseStops(last.body)))
                   /\ (Len(replies) = http_max_retries + 1 /\ Retryable(last)) =>
                          ns_result =
                              Some(Raise(Exc(IF last.kind = "timeout" THEN "TimeoutException"
                                             ELSE "HTTPStatusError",
                                             last.code, http_max_retries)))

\* two failed attempts, two sleeps, and a third attempt whose stops are returned
C5_Witness ==
    /\ handler = "bus_nearby"
    /\ ns_pc = "returned"
    /\ Len(replies) = http_max_retries + 1
    /\ sleeps = http_max_retries
    /\ replies[1] # replies[2]
    /\ Succeeds(replies[Len(replies)])
    /\ ~ns_result[1].raised /\ ns_result[1].value # <<>>

\* the operations that are invoked directly and do not retry
FailFastOps == BusOps \cup StatusOps \cup {"subway_arrivals"}

\* C6: every operation other than get_nearby_stops (routes, stops, realtime
\* arrivals, vehicle positions, bus route shape, arrivals for a line, alerts,
\* broken elevators) issues exactly one upstream request per invocation, and
\* when that request fails it raises without a second request or a sleep.
C6_FailFast ==
    handler \in FailFastOps =>
        /\ pc = "running" => requests = 1 /\ replies = <<>>
        /\ result # None =>
               /\ requests = 1
               /\ Len(replies) = 1
               /\ sleeps = 0
               /\ ~Succeeds(replies[1]) => result[1].raised

\* a bus operation whose only request failed and that raised
C6_Witness ==
    /\ handler \in BusOps
    /\ pc = "done"
    /\ requests = 1
    /\ replies # <<>> /\ Retryable(replies[1])
    /\ result # None /\ result[1].raised

\* C8 as stated: for every directly invoked operation an upstream 401 or 403
\* is answered as an authentication failure (503), and every other upstream
\* failure is answered differently (502).
C8_AsStated ==
    (handler \in FailFastOps \cup {"bus_nearby"} /\ pc = "done" /\ replies # <<>>) =>
        LET last == replies[Len(replies)]
        IN  /\ AuthRejected(last) => response[1].status = 503
            /\ (~Succeeds(last) /\ ~AuthRejected(last)) => response[1].status = 502

\* the destination an arrival carries, None when it carries none
DestinationOf(arrival) ==
    IF "destination" \in DOMAIN arrival THEN arrival.destination ELSE None

\* the destination of a trip as C9 states it
StatedDestination(trip) ==
    LET last_stop_id == trip.stop_time_update[Len(trip.stop_time_update)].stop_id
    IN  IF get_stop_info(last_stop_id) # None THEN Some(get_stop_info(last_stop_id)[1].name)
        ELSE IF /\ Len(last_stop_id) > 1
                /\ last_stop_id[Len(last_stop_id)] \in {78, 83}
                /\ get_stop_info(DropLast(last_stop_id)) # None
        THEN Some(get_stop_info(DropLast(last_stop_id))[1].name)
        ELSE None

\* /subway/{line_id} has answered with the arrivals decoded from a feed
SubwayAnswered ==
    /\ handler = "subway_arrivals"
    /\ result # None
    /\ ~result[1].raised

\* C9 as stated: every arrival returned by get_arrivals_for_line carries the
\* stop-index name of the last stop of its trip, looked up again without the
\* trailing N or S when the id is not in the index, and no destination when
\* neither id is in the index.
C9_AsStated ==
    SubwayAnswered =>
        \A a \in Range(result[1].value) :
            \E k \in DOMAIN replies[1].body :
                LET trip == replies[1].body[k]
                IN  /\ trip.has_trip_update
                    /\ trip.route_id = a.route_id
                    /\ \E stu \in Range(trip.stop_time_update) : stu.stop_id = a.station
                    /\ DestinationOf(a) = StatedDestination(trip)

\* the positions of the stop-time updates of a feed that belong to a trip
\* update and have an arrival time other than 0
Qualifying(feed) ==
    {p \in UNION {{<<k, j>> : j \in DOMAIN feed[k].stop_time_update} : k \in DOMAIN feed} :
        /\ feed[p[1]].has_trip_update
        /\ feed[p[1]].stop_time_update[p[2]].has_arrival
        /\ feed[p[1]].stop_time_update[p[2]].time # 0}

\* route, stop and minutes-away of the stop-time update at a position
Predicted(feed, p) ==
    LET stu == feed[p[1]].stop_time_update[p[2]]
    IN  [route_id     |-> feed[p[1]].route_id,
         station      |-> stu.stop_id,
         minutes_away |-> IF stu.time <= Now THEN 0 ELSE (stu.time - Now) \div 60]

Projected(arrivals) ==
    [k \in DOMAIN arrivals |->
        [route_id     |-> arrivals[k].route_id,
         station      |-> arrivals[k].station,
         minutes_away |-> arrivals[k].minutes_away]]

\* C10: get_arrivals_for_line returns exactly one arrival for each stop-time
\* update with an arrival time other than 0, over all trip updates of the
\* feed, and no other, in ascending minutes-away order.
C10_ArrivalsForLine ==
    SubwayAnswered =>
        LET feed == replies[1].body
            out == Projected(result[1].value)
        IN  /\ Len(out) = Cardinality(Qualifying(feed))
            /\ \A a \in Range(out) :
                   Count(out, a) = Cardinality({p \in Qualifying(feed) : Predicted(feed, p) = a})
            /\ Ascending(out)
            /\ response[1].status = 200
            /\ response[1].body = result[1].value

\* a feed of two trip updates whose arrivals come back in the other order
C10_Witness ==
    /\ SubwayAnswered
    /\ Len(replies[1].body) = 2
    /\ Len(result[1].value) = 2
    /\ result[1].value[1].route_id = <<67>>
    /\ result[1].value[2].route_id = <<65>>
    /\ result[1].value[1].minutes_away < result[1].value[2].minutes_away

\* m is the number of whole minutes from instant n until instant t, and 0
\* when t is not after n: max(0, floor((t - n) / 60)) stated without division
WholeMinutes(t, n, m) ==
    /\ m >= 0
    /\ t - n < 60 => m = 0
    /\ t - n >= 60 => (60 * m <= t - n /\ t - n < 60 * m + 60)

\* C11: the minutes-away of every arrival decoded from a stop-time update
\* with arrival epoch t, at the instant n the request is served, equals
\* max(0, floor((t - n) / 60)), and is never negative.
C11_MinutesAway ==
    SubwayAnswered =>
        LET feed == replies[1].body
            \* arrival a is the stop-time update at position q, decoded
            Decodes(a, q) ==
                LET stu == feed[q[1]].stop_time_update[q[2]]
                IN  /\ stu.stop_id = a.station
                    /\ feed[q[1]].route_id = a.route_id
                    /\ WholeMinutes(stu.time, Now, a.minutes_away)
        IN  /\ \A a \in Range(result[1].value) :
                   /\ a.minutes_away >= 0
                   /\ \E q \in Qualifying(feed) : Decodes(a, q)
            /\ \A q \in Qualifying(feed) :
                   \E a \in Range(result[1].value) : Decodes(a, q)

\* a feed with an arrival epoch in the past and one two whole minutes ahead,
\* decoded into arrivals 0 and 2 minutes away
C11_Witness ==
    /\ SubwayAnswered
    /\ \E p \in Qualifying(replies[1].body) :
           replies[1].body[p[1]].stop_time_update[p[2]].time = Now - 20
    /\ \E p \in Qualifying(replies[1].body) :
           replies[1].body[p[1]].stop_time_update[p[2]].time = Now + 120
    /\ \E a \in Range(result[1].value) : a.minutes_away = 0
    /\ \E a \in Range(result[1].value) : a.minutes_away = 2

\* the number of stops shape_stops.json lists for a geometry id
StopCount(sid) == IF sid \in DOMAIN load_shape_stops THEN Len(load_shape_stops[sid]) ELSE 0

\* the geometry ids trips.txt gives for a route and direction
CandidatesOf(route_id, direction) ==
    {trips_txt[k].shape_id :
        k \in {r \in DOMAIN trips_txt :
                  trips_txt[r].route_id = route_id /\ trips_txt[r].direction_id = direction}}

\* C12: for every (route, direction) pair of trips.txt the geometry id
\* selected is a candidate of that pair, and no other candidate of the pair
\* has a longer precomputed stop list.
C12_BranchSelection ==
    route_shapes_cache # None =>
        LET picked == route_shapes_cache[1]
        IN  /\ DOMAIN picked =
                   {<<trips_txt[k].route_id, trips_txt[k].direction_id>> : k \in DOMAIN trips_txt}
            /\ \A key \in DOMAIN picked :
                   /\ picked[key] \in CandidatesOf(key[1], key[2])
                   /\ \A other \in CandidatesOf(key[1], key[2]) :
                          StopCount(other) <= StopCount(picked[key])

\* a pair with a 2-stop and a 4-stop candidate, the 4-stop one selected
C12_Witness ==
    /\ route_shapes_cache # None
    /\ \E key \in DOMAIN route_shapes_cache[1] :
           /\ CandidatesOf(key[1], key[2]) = {"S1", "S2"}
           /\ route_shapes_cache[1][key] = "S1"
           /\ StopCount("S2") < StopCount("S1")

\* /subway/shape/{route_id} has answered with a route shape
ShapeAnswered ==
    /\ handler = "subway_shape"
    /\ result # None
    /\ result[1].value # None

\* the route the answered shape is of, and the directions it has a geometry for
ShapeRoute == response[1].body.route_id

ShapeDirections == {key[2] : key \in {k \in DOMAIN route_shapes_cache[1] : k[1] = ShapeRoute}}

\* the resolved stops of the geometry selected for a direction of that route
StopsOfDirection(d) == get_stops_for_shape(route_shapes_cache[1][<<ShapeRoute, d>>])

LeastOf(numbers) == CHOOSE d \in numbers : \A e \in numbers : d <= e

\* C13 as stated: the stop list returned for a route is the stop list of the
\* geometry of its lowest direction number, also when that list is empty.
C13_AsStated ==
    ShapeAnswered => result[1].value[1].stops = StopsOfDirection(LeastOf(ShapeDirections))

\* C13: the stop list returned for a route is built from the geometry of one
\* direction only: the lowest direction number whose geometry yields at
\* least one stop; it is empty only when no direction yields a stop.
C13_StopListSource ==
    ShapeAnswered =>
        LET yielding == {d \in ShapeDirections : StopsOfDirection(d) # <<>>}
        IN  IF yielding = {} THEN result[1].value[1].stops = <<>>
            ELSE result[1].value[1].stops = StopsOfDirection(LeastOf(yielding))

\* a route whose direction 0 yields no stop and whose direction 1 yields
\* some, answered with the stops of direction 1
C13_Witness ==
    /\ ShapeAnswered
    /\ ShapeDirections = {0, 1}
    /\ StopsOfDirection(0) = <<>>
    /\ StopsOfDirection(1) # <<>>
    /\ result[1].value[1].stops = StopsOfDirection(1)

\* the stops of a geometry that the stop index resolves, each with its name
\* and its position in the geometry's stop list
RECURSIVE ResolvedFrom(_, _)
ResolvedFrom(stop_ids, seq) ==
    IF seq > Len(stop_ids) THEN <<>>
    ELSE (IF stop_ids[seq] \in DOMAIN load_stops
          THEN <<[stop_id  |-> stop_ids[seq],
                  name     |-> load_stops[stop_ids[seq]].name,
                  sequence |-> seq - 1]>>
          ELSE <<>>) \o ResolvedFrom(stop_ids, seq + 1)

\* a list of resolved stops without those that have the name of the stop
\* immediately before them
WithoutConsecutiveDuplicates(resolved) ==
    LET kept == {k \in DOMAIN resolved : k = 1 \/ resolved[k].name # resolved[k - 1].name}
        Pick(n) == CHOOSE k \in kept : Cardinality({j \in kept : j < k}) = n - 1
    IN  [n \in 1..Cardinality(kept) |-> resolved[Pick(n)]]

\* the stop list the claim gives the geometry selected for a direction
StatedStopsOfDirection(d) ==
    WithoutConsecutiveDuplicates(
        ResolvedFrom(ShapeStopsOf(route_shapes_cache[1][<<ShapeRoute, d>>]), 1))

\* C14 as stated: the stop list returned for a route is the list of the
\* resolved stops of the geometry it is built from, less every stop that has
\* the display name of the stop immediately preceding it; stops that are not
\* adjacent are both kept, also when they share a display name.
C14_AsStated ==
    ShapeAnswered =>
        \E d \in ShapeDirections : result[1].value[1].stops = StatedStopsOfDirection(d)

\* /subway/shape/{route_id} has answered, with a shape or without
ShapeRequested == handler = "subway_shape" /\ response # None

\* the route that request is for
RequestedRoute == Upper(response[1].body.route_id)

\* the geometry ids trips.txt associates with that route
AssociatedShapes ==
    {trips_txt[k].shape_id : k \in {r \in DOMAIN trips_txt : trips_txt[r].route_id = RequestedRoute}}

\* the geometry ids selected for the directions of that route
SelectedShapes ==
    {route_shapes_cache[1][key] :
        key \in {k \in DOMAIN route_shapes_cache[1] : k[1] = RequestedRoute}}

\* shapes.txt has coordinate data for a geometry id
HasCoordinates(sid) == \E k \in DOMAIN shapes_txt : shapes_txt[k].shape_id = sid

\* C15 as stated: route_shape returns absent exactly when no geometry id is
\* associated with the route; with a geometry id associated a result is
\* returned, whose polyline list is empty only when no coordinate data exists.
C15_AsStated ==
    ShapeRequested =>
        /\ result[1].value = None <=> AssociatedShapes = {}
        /\ result[1].value # None =>
               (result[1].value[1].polylines = <<>> =>
                    \A sid \in SelectedShapes : ~HasCoordinates(sid))

\* C15: route_shape returns absent exactly when no geometry id is associated
\* with the route or none of the geometries selected for its directions has
\* coordinate data; a result that is returned has one polyline for each
\* direction whose geometry has coordinate data, so never an empty list, and
\* its answer is 404 exactly when the result is absent.
C15_RouteShapeAbsence ==
    ShapeRequested =>
        /\ result[1].value = None <=>
               (AssociatedShapes = {} \/ \A sid \in SelectedShapes : ~HasCoordinates(sid))
        /\ result[1].value # None =>
               /\ result[1].value[1].polylines # <<>>
               /\ Len(result[1].value[1].polylines) =
                      Cardinality({key \in DOMAIN route_shapes_cache[1] :
                                      /\ key[1] = RequestedRoute
                                      /\ HasCoordinates(route_shapes_cache[1][key])})
        /\ response[1].status = (IF result[1].value = None THEN 404 ELSE 200)

\* a route with a geometry id that has no coordinate data, answered absent
C15_Witness ==
    /\ ShapeRequested
    /\ AssociatedShapes # {}
    /\ \A sid \in SelectedShapes : ~HasCoordinates(sid)
    /\ result[1].value = None
    /\ response[1].status = 404

\* /subway/stations/all has answered
StationsAnswered == handler = "subway_stations_all" /\ response # None

\* a stop id with a trailing N or S stripped
StatedParent(stop_id) ==
    IF EndsWith(stop_id, 78) \/ EndsWith(stop_id, 83) THEN DropLast(stop_id) ELSE stop_id

\* the routes of trips.txt, and the stops the stop index resolves in the
\* geometries selected for the directions of a route
RoutesOfTrips == {trips_txt[k].route_id : k \in DOMAIN trips_txt}

ResolvedStopsOfRoute(route_id) ==
    UNION {{stop_id \in Range(ShapeStopsOf(route_shapes_cache[1][key])) :
                stop_id \in DOMAIN load_stops} :
              key \in {k \in DOMAIN route_shapes_cache[1] : k[1] = route_id}}

\* the routes that have a stop with a parent id in a selected geometry
RoutesServing(parent_id) ==
    {r \in RoutesOfTrips : \E stop_id \in ResolvedStopsOfRoute(r) : StatedParent(stop_id) = parent_id}

StrictlyAscendingStrings(s) == \A k \in 1..(Len(s) - 1) : StrLess(s[k], s[k + 1])

\* C16 as stated: in the result of all_stations every parent id of a stop of a
\* selected geometry appears exactly once, and its serving-route list is
\* sorted and holds exactly the routes that have a stop with that parent id
\* in any of their selected direction geometries.
C16_AsStated ==
    StationsAnswered =>
        LET stations == response[1].body
        IN  /\ \A r \in RoutesOfTrips : \A stop_id \in ResolvedStopsOfRoute(r) :
                   Cardinality({k \in DOMAIN stations : stations[k].id = StatedParent(stop_id)}) = 1
            /\ \A k \in DOMAIN stations :
                   /\ StrictlyAscendingStrings(stations[k].routes)
                   /\ Range(stations[k].routes) = RoutesServing(stations[k].id)

\* the signed value of a decoded chunk sum: ~(v >> 1) if v is odd, else v >> 1
Unshifted(v) == IF v % 2 = 1 THEN -((v + 1) \div 2) ELSE v \div 2

\* the standard polyline decoding of a character sequence into signed
\* values: five bits per character, least significant group first, bit
\* 0x20 set on every character of a value but its last; a sequence that
\* ends inside a value decodes to no list at all
RECURSIVE DecodedValues(_, _, _)
DecodedValues(chars, sum, scale) ==
    IF chars = <<>> THEN (IF scale = 1 THEN Some(<<>>) ELSE None)
    ELSE LET b == Head(chars) - 63
             total == sum + (b % 32) * scale
         IN  IF b >= 32 THEN DecodedValues(Tail(chars), total, scale * 32)
             ELSE LET rest == DecodedValues(Tail(chars), 0, 1)
                  IN  IF rest = None THEN None ELSE Some(<<Unshifted(total)>> \o rest[1])

\* the values taken two by two as latitude and longitude deltas and summed up
RECURSIVE PointsFrom(_, _, _)
PointsFrom(deltas, prev_lat, prev_lon) ==
    IF Len(deltas) < 2 THEN <<>>
    ELSE <<[lat |-> prev_lat + deltas[1], lon |-> prev_lon + deltas[2]]>>
         \o PointsFrom(Tail(Tail(deltas)), prev_lat + deltas[1], prev_lon + deltas[2])

DecodedPolyline(chars) ==
    LET deltas == DecodedValues(chars, 0, 1)
    IN  IF deltas = None \/ Len(deltas[1]) % 2 = 1 THEN None
        ELSE Some(PointsFrom(deltas[1], 0, 0))

\* C17: decoding the encoder's output with the standard polyline algorithm
\* gives back the coordinate list in units of 1e-5 degree exactly; every
\* character emitted has a code in 63..126, and the characters without the
\* continuation bit are as many as the values encoded (two per point), the
\* last character being one of them.
C17_PolylineRoundTrip ==
    polyline_output # None =>
        LET chars == polyline_output[1]
            scaled == [k \in DOMAIN polyline_input |->
                          [lat |-> round_e5(polyline_input[k].lat),
                           lon |-> round_e5(polyline_input[k].lon)]]
        IN  /\ DecodedPolyline(chars) = Some(scaled)
            /\ \A k \in DOMAIN chars : chars[k] >= 63 /\ chars[k] <= 126
            /\ Cardinality({k \in DOMAIN chars : chars[k] - 63 < 32}) = 2 * Len(polyline_input)
            /\ chars # <<>> => chars[Len(chars)] - 63 < 32

\* two points encoded, with a negative delta and values of several chunks
C17_Witness ==
    /\ polyline_output # None
    /\ Len(polyline_input) = 2
    /\ polyline_input[1].lat = 40730614
    /\ polyline_input[2].lat = -161
    /\ polyline_input[2].lon = 159
    /\ Len(polyline_output[1]) > 8

\* the entries of the bus branch that come from the arrivals of the answered
\* stops without, or with, an expected-arrival timestamp (in the sampled
\* replies no entry of the one kind equals an entry of the other)
BusEntriesWhere(timed) ==
    UNION {{BusEntries(stops[j], <<stop_results[j][1].value[k]>>)[1] :
               k \in {a \in DOMAIN stop_results[j][1].value :
                         (stop_results[j][1].value[a].expected_arrival # None) = timed}} :
             j \in Succeeded(stop_results)}

\* the positions of an answer that hold an entry without an expected time,
\* and those that hold an arrival with a real expected time
UntimedPositions(body) == {p \in DOMAIN body : body[p] \in BusEntriesWhere(FALSE)}

TimedPositions(body) ==
    {q \in DOMAIN body : body[q].mode = "subway" \/ body[q] \in BusEntriesWhere(TRUE)}

\* C18 as stated: in the answer of nearby every bus arrival without an
\* expected-arrival timestamp comes after every arrival that has a real
\* expected time.
C18_AsStated ==
    NearbyAnswered =>
        \A p \in UntimedPositions(response[1].body) :
            \A q \in TimedPositions(response[1].body) : q < p

\* C18: in the answer of nearby every bus arrival without an expected-arrival
\* timestamp has minutes-away 99, comes after every arrival that is less
\* than 99 minutes away and before every arrival that is more than 99
\* minutes away.
C18_SentinelOrdering ==
    NearbyAnswered =>
        \A p \in UntimedPositions(response[1].body) :
            /\ response[1].body[p].minutes_away = 99
            /\ \A q \in TimedPositions(response[1].body) :
                   /\ response[1].body[q].minutes_away < 99 => q < p
                   /\ response[1].body[q].minutes_away > 99 => p < q

\* an answer with an untimed bus arrival between a sooner and a later timed one
C18_Witness ==
    /\ NearbyAnswered
    /\ \E p \in UntimedPositions(response[1].body) :
           /\ \E q \in TimedPositions(response[1].body) :
                  q < p /\ response[1].body[q].minutes_away < 99
           /\ \E q \in TimedPositions(response[1].body) :
                  p < q /\ response[1].body[q].minutes_away > 99

\* the position a nearby request is made from; the sampled stops lie north
\* of it, the later in the reply the nearer
RequestPosition == [lat |-> 0, lon |-> 0]

\* how far a stop lies from that position, squared
SquaredDistance(stop) ==
    (stop.lat - RequestPosition.lat) * (stop.lat - RequestPosition.lat)
    + (stop.lon - RequestPosition.lon) * (stop.lon - RequestPosition.lon)

\* C19 as stated: the bus branch issues arrival queries for at most 3 stops,
\* and no stop of the nearby-stops reply that is left unqueried lies closer
\* to the request's position than a queried one.
C19_AsStated ==
    bus_pc = "gather" =>
        /\ Len(stop_results) <= 3
        /\ \A j \in DOMAIN stop_results : \A k \in DOMAIN stops \ DOMAIN stop_results :
               SquaredDistance(stops[j]) <= SquaredDistance(stops[k])

\* the feed keys of the mapping, and those the subway branch fetches
FeedGroups ==
    {LINE_TO_URL_KEY(line)[1] :
        line \in {<<65>>, <<67>>, <<69>>, <<71>>, <<78>>, <<81>>, <<82>>, <<87>>, <<49>>, <<50>>,
                  <<51>>, <<52>>, <<53>>, <<54>>, <<66>>, <<68>>, <<70>>, <<77>>, <<74>>, <<90>>,
                  <<76>>, <<83, 73>>}}

\* C20 as stated: of the lines the subway branch fetches no two resolve to
\* the same feed, and every feed-group of the line-to-feed mapping is
\* resolved by one of them.
C20_AsStated ==
    subway_pc = "gather" =>
        /\ \A i \in DOMAIN feed_results : LINE_TO_URL_KEY(feed_lines[i]) # None
        /\ \A i \in DOMAIN feed_results : \A k \in DOMAIN feed_results :
               LINE_TO_URL_KEY(feed_lines[i]) = LINE_TO_URL_KEY(feed_lines[k]) => i = k
        /\ \A group \in FeedGroups :
               \E i \in DOMAIN feed_results : LINE_TO_URL_KEY(feed_lines[i]) = Some(group)

\* the entries of s that are m minutes away, in the order of s
RECURSIVE AtMinutes(_, _)
AtMinutes(s, m) ==
    IF s = <<>> THEN <<>>
    ELSE (IF Head(s).minutes_away = m THEN <<Head(s)>> ELSE <<>>) \o AtMinutes(Tail(s), m)

IsPrefix(a, b) == Len(a) <= Len(b) /\ SubSeq(b, 1, Len(a)) = a

\* what the fetches that succeeded contribute, in the order of the program
\* text: the feeds in the order of feed_lines, then the stops in the order
\* in which get_nearby_stops listed them
ProgramOrder ==
    (IF subway_results[1].raised THEN <<>> ELSE SucceededFeeds)
    \o (IF bus_results[1].raised THEN <<>> ELSE SucceededStops)

\* the position in s of the first entry of a route
FirstOfRoute(s, route_id) ==
    CHOOSE k \in DOMAIN s :
        s[k].route_id = route_id /\ \A j \in 1..(k - 1) : s[j].route_id # route_id

\* C21: whatever the order in which the feed fetches, the stop queries and
\* the two branches completed, the answers of nearby and nearby_grouped are
\* fixed by the upstream responses: entries with equal minutes-away keep the
\* order of the program text (feeds in the order of the feed list, then the
\* stops in the order of the stop list), in the flat answer and within every
\* direction of a group, and groups with equal soonest minutes-away are in
\* the order in which their routes first occur in that order.
C21_DeterministicMerge ==
    /\ NearbyAnswered =>
           LET body == response[1].body
           IN  /\ Len(body) = Min(Len(ProgramOrder), 20)
               /\ \A k \in DOMAIN body :
                      IsPrefix(AtMinutes(body, body[k].minutes_away),
                               AtMinutes(ProgramOrder, body[k].minutes_away))
    /\ GroupedAnswered =>
           LET groups == response[1].body
           IN  /\ \A g \in DOMAIN groups : \A d \in DOMAIN groups[g].directions :
                      LET bucket == groups[g].directions[d]
                          source == Filter(ProgramOrder, groups[g].route_id,
                                           Some(bucket.direction))
                      IN  \A k \in DOMAIN source :
                              AtMinutes(bucket.arrivals, source[k].minutes_away)
                                  = AtMinutes(source, source[k].minutes_away)
               /\ \A g \in 1..(Len(groups) - 1) :
                      GroupMinimum(groups[g]) = GroupMinimum(groups[g + 1]) =>
                          FirstOfRoute(ProgramOrder, groups[g].route_id)
                              < FirstOfRoute(ProgramOrder, groups[g + 1].route_id)

\* a flat answer given after the bus branch finished before the subway
\* branch, in which a subway entry precedes a bus entry equally soon, an
\* entry of an earlier feed precedes one of a later feed equally soon, and
\* an entry of an earlier stop precedes one of a later stop equally soon
C21_Witness ==
    /\ NearbyAnswered
    /\ completed = <<"bus", "subway">>
    /\ LET body == response[1].body
       IN  /\ \E p \in DOMAIN body : \E q \in DOMAIN body :
                  /\ p < q
                  /\ body[p].minutes_away = body[q].minutes_away
                  /\ body[p].mode = "subway" /\ body[q].mode = "bus"
           /\ \E p \in DOMAIN body : \E q \in DOMAIN body :
                  /\ p < q
                  /\ body[p].minutes_away = body[q].minutes_away
                  /\ body[p].mode = "subway" /\ body[q].mode = "subway"
                  /\ body[p].route_id # body[q].route_id
           /\ \E p \in DOMAIN body : \E q \in DOMAIN body :
                  /\ p < q
                  /\ body[p].minutes_away = body[q].minutes_away
                  /\ body[p].mode = "bus" /\ body[q].mode = "bus"
                  /\ body[p].stop_name # body[q].stop_name

\* the representative lines: A, G, N, 1, B, J, L
RepresentativeLines == {<<65>>, <<71>>, <<78>>, <<49>>, <<66>>, <<74>>, <<76>>}

\* the entry is what the feed fetched for its line made of one of the first
\* five arrivals it decoded
FromFeedOfLine(entry) ==
    \E i \in Succeeded(feed_results) :
        /\ feed_lines[i] = entry.route_id
        /\ \E a \in Range(Take(feed_results[i][1].value, 5)) :
               /\ a.station = entry.stop_name
               /\ a.direction = entry.direction
               /\ a.minutes_away = entry.minutes_away

\* C28: every subway entry of the answers of nearby and nearby_grouped has
\* the route id of one of the representative lines A, G, N, 1, B, J, L, the
\* line whose feed was fetched, whatever route id the decoded arrival
\* carries; at most 7 subway groups appear.
C28_RepresentativeLabel ==
    /\ NearbyAnswered =>
           \A e \in SubwayMode(response[1].body) :
               e.route_id \in RepresentativeLines /\ FromFeedOfLine(e)
    /\ GroupedAnswered =>
           /\ \A g \in SubwayMode(response[1].body) :
                  /\ g.route_id \in RepresentativeLines
                  /\ \A e \in Range(GroupArrivals(g.directions)) :
                         e.route_id = g.route_id /\ FromFeedOfLine(e)
           /\ Cardinality({k \in DOMAIN response[1].body :
                              response[1].body[k].mode = "subway"}) <= 7

\* a grouped answer with a subway group for each of the 7 lines, one of whose
\* entries was decoded from an arrival of another route of the same feed
C28_Witness ==
    /\ GroupedAnswered
    /\ Cardinality({k \in DOMAIN response[1].body :
                       response[1].body[k].mode = "subway"}) = 7
    /\ \E i \in Succeeded(feed_results) :
           \E a \in Range(Take(feed_results[i][1].value, 5)) :
               /\ a.route_id # feed_lines[i]
               /\ a.minutes_away >= 1
               /\ \E g \in SubwayMode(response[1].body) :
                      /\ g.route_id = feed_lines[i]
                      /\ \E e \in Range(GroupArrivals(g.directions)) :
                             /\ e.stop_name = a.station
                             /\ e.direction = a.direction
                             /\ e.minutes_away = a.minutes_away

LiveAnswered ==
    handler = "bus_live" /\ result # None /\ ~result[1].raised /\ replies # <<>>

\* the visit has a status text, or an expected-arrival timestamp that parses
Useful(visit) ==
    visit.PresentableDistance # <<>> \/ visit.ExpectedArrivalTime.kind = "iso"

\* C23: a monitored stop visit yields a BusArrival if and only if it has a
\* non-empty status text or an expected-arrival timestamp that parses (one
\* that does not parse counts as absent), the arrivals being in the order of
\* their visits, and every BusArrival returned has a non-empty status text.
C23_DropRule ==
    LiveAnswered =>
        LET visits == replies[Len(replies)].body
            kept == SelectSeq(visits, Useful)
            arrivals == result[1].value
        IN  /\ Len(arrivals) = Len(kept)
            /\ \A n \in DOMAIN arrivals :
                   /\ arrivals[n].status_text # <<>>
                   /\ kept[n].PresentableDistance # <<>> =>
                          arrivals[n].status_text = kept[n].PresentableDistance
                   /\ arrivals[n].expected_arrival =
                          IF kept[n].ExpectedArrivalTime.kind = "iso"
                          THEN Some(kept[n].ExpectedArrivalTime.epoch)
                          ELSE None

\* the visits held one without status text and without timestamp and one
\* without status text whose timestamp does not parse, both dropped, one
\* with a timestamp only and one with a status text only, both kept
C23_Witness ==
    /\ LiveAnswered
    /\ LET visits == replies[Len(replies)].body
           arrivals == result[1].value
       IN  /\ \E k \in DOMAIN visits :
                  /\ visits[k].PresentableDistance = <<>>
                  /\ visits[k].ExpectedArrivalTime.kind = "absent"
           /\ \E k \in DOMAIN visits :
                  /\ visits[k].PresentableDistance = <<>>
                  /\ visits[k].ExpectedArrivalTime.kind = "garbage"
           /\ Len(arrivals) < Len(visits)
           /\ \E n \in DOMAIN arrivals :
                  arrivals[n].status_text = strEnRoute /\ arrivals[n].expected_arrival # None
           /\ \E n \in DOMAIN arrivals :
                  arrivals[n].status_text # strEnRoute /\ arrivals[n].expected_arrival = None

\* the upstream answered with an HTTP-status error
StatusError(reply) == reply.kind = "http" /\ reply.code >= 400

\* the attempt failed with an error that is neither an HTTP-status error nor
\* a timeout: the connection failed or the body does not parse
OtherFailure(reply) == ~Retryable(reply) /\ ~Succeeds(reply)

\* C30: in get_nearby_stops an attempt that fails with an error that is
\* neither an HTTP-status error nor a timeout (connection failure, malformed
\* body) ends the call at once: its error is raised, no sleep and no further
\* attempt follow; an attempt that fails with an HTTP-status error, 401 and
\* 403 included, is followed by a sleep and another attempt as long as the
\* budget of http_max_retries retries is not used up, and its error is
\* raised only when it is.
C30_RetryScope ==
    handler = "bus_nearby" =>
        \A k \in DOMAIN replies :
            /\ OtherFailure(replies[k]) =>
                   /\ k = Len(replies)
                   /\ ns_pc = "returned"
                   /\ requests = k /\ sleeps = k - 1
                   /\ ns_result[1].raised
                   /\ ns_result[1].exc.class \notin {"HTTPStatusError", "TimeoutException"}
                   /\ ns_result[1].exc.attempt = k - 1
            /\ (StatusError(replies[k]) /\ k = Len(replies)) =>
                   IF k <= http_max_retries
                   THEN \/ ns_pc = "sleeping" /\ sleeps = k /\ requests = k
                        \/ ns_pc = "awaiting" /\ sleeps = k /\ requests = k + 1
                   ELSE /\ ns_pc = "returned"
                        /\ ns_result = Some(Raise(Exc("HTTPStatusError", replies[k].code,
                                                      http_max_retries)))

\* a 401 was retried, the 403 that followed was retried, and the third
\* attempt failed with an error of another kind, which was raised
C30_Witness ==
    /\ handler = "bus_nearby"
    /\ Len(replies) = 3
    /\ replies[1].code = 401 /\ replies[2].code = 403
    /\ OtherFailure(replies[3])
    /\ ns_pc = "returned"
    /\ ns_result[1].raised

\* the stops the upstream returns for the box of the configured search radius
DefaultStops ==
    ParseStops(StopsInBox(StopsParams(request[1].lat, request[1].lon, search_radius_meters)))

NotStale(arrival) == arrival.minutes_away >= 1

\* C27: what one feed contributes to the subway branch is exactly the
\* arrivals at least 1 minute away among the first 5 of the feed's ascending
\* arrival list, in their order and labelled with the line; a feed whose
\* first 5 arrivals are all 0 minutes away contributes nothing, whatever
\* arrivals follow them.
C27_TopNBeforeStaleFilter ==
    entries_output # None =>
        LET first_five == Take(arrivals_input, 5)
            fresh == SelectSeq(first_five, NotStale)
            entries == entries_output[1].entries
        IN  /\ Ascending(arrivals_input)
            /\ Len(entries) = Len(fresh)
            /\ \A n \in DOMAIN entries :
                   /\ entries[n].route_id = entries_output[1].line
                   /\ entries[n].mode = "subway"
                   /\ entries[n].stop_name = fresh[n].station
                   /\ entries[n].direction = fresh[n].direction
                   /\ entries[n].minutes_away = fresh[n].minutes_away
                   /\ entries[n].status = fresh[n].status
            /\ (Len(first_five) = 5 /\ \A k \in 1..5 : first_five[k].minutes_away = 0) =>
                   entries = <<>>

\* a feed of 6 arrivals, the first 5 due now and the sixth a minute or more
\* away, that contributed nothing
C27_Witness ==
    /\ entries_output # None
    /\ Len(arrivals_input) = 6
    /\ \A k \in 1..5 : arrivals_input[k].minutes_away = 0
    /\ arrivals_input[6].minutes_away >= 1
    /\ entries_output[1].entries = <<>>

HasAgencyPrefix(route_id) ==
    Len(route_id) >= Len(strAgencyPrefix)
        /\ SubSeq(route_id, 1, Len(strAgencyPrefix)) = strAgencyPrefix

\* C22: the display name of a group is its route id without the prefix
\* "MTA NYCT_" when the route id starts with it, and the route id itself
\* otherwise; the color of a subway group is the entry of the color table for
\* the upper-cased display name, absent when the table has none, and the
\* color of a bus group is absent.
C22_DisplayNameAndColor ==
    groups_output # None =>
        \A g \in Range(groups_output[1]) :
            /\ IF HasAgencyPrefix(g.route_id)
               THEN strAgencyPrefix \o g.display_name = g.route_id
               ELSE g.display_name = g.route_id
            /\ g.mode = "subway" => g.color_hex = SUBWAY_COLORS(Upper(g.display_name))
            /\ g.mode = "bus" => g.color_hex = None

\* groups of a bus route with the prefix, of a bus route without it, of a
\* subway line that has its color by its upper-cased name only, and of a
\* subway line without a color
C22_Witness ==
    /\ groups_output # None
    /\ \E g \in Range(groups_output[1]) :
           g.mode = "bus" /\ HasAgencyPrefix(g.route_id) /\ g.display_name = <<66, 54, 51>>
    /\ \E g \in Range(groups_output[1]) :
           g.mode = "bus" /\ g.display_name = g.route_id
    /\ \E g \in Range(groups_output[1]) :
           /\ g.mode = "subway" /\ g.color_hex # None
           /\ Upper(g.display_name) # g.display_name
    /\ \E g \in Range(groups_output[1]) :
           g.mode = "subway" /\ g.color_hex = None

\* the (group, direction) buckets of a grouped list
Buckets(groups) ==
    UNION {{<<g, d>> : d \in DOMAIN groups[g].directions} : g \in DOMAIN groups}

\* C25: for every flat list, each arrival of the list is in exactly one
\* (group, direction) bucket of the output of _group_arrivals, the bucket of
\* its route id and direction, as often as it is in the list; no arrival is
\* added, dropped or duplicated; every group has at least one direction and
\* every direction at least one arrival; no two groups share a route id.
C25_GroupingConserves ==
    groups_output # None =>
        LET groups == groups_output[1]
        IN  /\ \A g \in DOMAIN groups :
                   /\ groups[g].directions # <<>>
                   /\ \A h \in DOMAIN groups :
                          groups[g].route_id = groups[h].route_id => g = h
                   /\ \A d \in DOMAIN groups[g].directions :
                          /\ groups[g].directions[d].arrivals # <<>>
                          /\ \A e \in DOMAIN groups[g].directions :
                                 groups[g].directions[d].direction
                                     = groups[g].directions[e].direction => d = e
                          /\ \A a \in Range(groups[g].directions[d].arrivals) :
                                 /\ a.route_id = groups[g].route_id
                                 /\ a.direction = groups[g].directions[d].direction
            /\ \A a \in Range(flat_input) :
                   \E b \in Buckets(groups) :
                       /\ groups[b[1]].route_id = a.route_id
                       /\ groups[b[1]].directions[b[2]].direction = a.direction
                       /\ Count(groups[b[1]].directions[b[2]].arrivals, a)
                              = Count(flat_input, a)
            /\ Len(Concat([g \in DOMAIN groups |-> GroupArrivals(groups[g].directions)]))
                   = Len(flat_input)

\* a list holding the same arrival twice, arrivals of two routes, and two
\* directions of one route, grouped
C25_Witness ==
    /\ groups_output # None
    /\ Len(groups_output[1]) = 2
    /\ \E a \in Range(flat_input) : Count(flat_input, a) = 2
    /\ \E g \in Range(groups_output[1]) : Len(g.directions) = 2

\* C26 as stated: in every group of the output of _group_arrivals every
\* arrival of every direction has the mode of the group, for every flat
\* list, also one in which a bus arrival and a subway arrival have the same
\* route id.
C26_AsStated ==
    groups_output # None =>
        \A g \in Range(groups_output[1]) :
            \A a \in Range(GroupArrivals(g.directions)) : a.mode = g.mode

\* C24: over any sequence of lookup, name_of, within_radius, route_shape and
\* all_stations calls, between which the data files may grow, the body of
\* each table's loader runs at most once, a table that is held is never
\* changed or replaced by a step, and a call that repeats the query of an
\* earlier call returns the answer the earlier call returned.
C24_LoadOnceImmutable ==
    [][/\ \A table \in StaticTables :
              /\ loader_runs'[table] <= 1
              /\ caches[table] # None => caches'[table] = caches[table]
       /\ (/\ remembered' # None
           /\ answered' # None
           /\ remembered'[1].query = answered'[1].query)
              => remembered'[1].answer = answered'[1].answer]_vars

\* Every table is held; route_shape was asked for route A while trips.txt
\* was as loaded and again after it had grown by a row that a second run of
\* the loader would have picked, and stops.txt has grown as well.
C24_Witness ==
    /\ \A table \in StaticTables : caches[table] # None /\ loader_runs[table] = 1
    /\ remembered # None
    /\ answered # None
    /\ remembered[1].query = answered[1].query
    /\ answered[1].query.op = "route_shape"
    /\ ~remembered[1].outdated
    /\ answered[1].outdated
    /\ stops_txt # <<>>
    /\ \A picked \in load_route_shapes(trips_txt) :
           get_subway_route_shape(answered[1].query.arg, picked) # answered[1].answer
====
